---------------------------- MODULE Spec2Model ----------------------------
(***************************************************************************)
(* Geometry engine of the RC track editor (benhalverson/rc-coach):         *)
(*   - quad ordering and validation      (src/app/geometry/geometry.ts)    *)
(*   - the store's onQuad path           (src/app/state/track-store.ts,    *)
(*                                        src/app/opencv.ts)               *)
(*   - centerline parameterization       (src/app/geometry/                *)
(*     and Frenet conversion              centerline-params.ts, frenet.ts) *)
(*   - zone queries and track limits     (src/app/geometry/zone-query.ts,  *)
(*                                        track-limits.ts)                 *)
(*   - the centerline demo               (centerline-demo.ts)              *)
(*   - coordinate conversions            (src/app/coord/coord-helpers.ts)  *)
(*   - the editing session: import,      (src/app/state/track-store.ts)    *)
(*     measurement, reset and export                                       *)
(*                                                                         *)
(* Numbers.  The code computes in IEEE doubles.  The model draws every     *)
(* coordinate from a small integer grid, so that sums, differences,        *)
(* products and the comparisons between them are exact in both worlds.     *)
(* Quotients are kept as exact fractions (numerator, denominator);         *)
(* Math.hypot is a fixed-point square root with Prec digits per unit.      *)
(***************************************************************************)
EXTENDS Integers, Sequences, FiniteSets, TLC

VARIABLES
    \* ---- quad ordering / validation (pure functions applied to an input)
    qpc,        \* "input" | "ordered" | "validated"
    raw,        \* the points handed to the function, in the caller's order
    ordered,    \* result of orderQuadTLTRBRBLv2: [threw, val]
    vargs,      \* arguments of validateQuadTLTRBRBL: [w, h, opts]
    vres,       \* result of validateQuadTLTRBRBL: [ok, reason]
    \* ---- TrackStore (track-store.ts) and Opencv (opencv.ts)
    pickerPts,  \* QuadPicker.pts: the four points the user has placed (the
                \*   pointer events that place them are outside the model)
    step,       \* TrackStore.step
    srcImage,   \* TrackStore.srcImage: Null or <<image id>>
    quadPx,     \* TrackStore.quadPx: Null or <<the four points>>
    topDown,    \* TrackStore.topDown: Null or <<the canvas>>, a canvas being
                \*   [kind, img, w, h]: how it was drawn ("warp", "fallback"
                \*   or "import"), from which image, and its size
    readyP,     \* Opencv.readyP: "unset" | "pending" | "resolved" | "rejected"
    inflight,   \* the onQuad call suspended at await cv.ready():
                \*   Null or <<[img, quad, awaited]>>: its local variables
                \*   and the state the promise it awaits was in when
                \*   ready() returned it
    picked,     \* the rawPts of the onQuad call that set quadPx (Null when
                \*   quadPx was set by something else)
    warpCall,   \* the arguments of the warpPerspective call made by the
                \*   latest onQuad: Null or <<[img, quad]>>
    loads,      \* the opencv.js script elements Opencv.ready() has appended
    \* ---- TrackStore: the session (track-store.ts)
    name,             \* TrackStore.name, a sequence of characters
    widthMeters,      \* TrackStore.widthMeters, a fraction [num, den]
    heightMeters,     \* TrackStore.heightMeters, a fraction [num, den]
    topDownW,         \* TrackStore.topDownW
    topDownH,         \* TrackStore.topDownH
    srcImageName,     \* TrackStore.srcImageName
    importTopdownImg, \* TrackStore.importTopdownImg: Null or <<image id>>
    importTrack,      \* TrackStore.importTrack: Null or <<the parsed json>>
    measureMode,      \* TrackStore.measureMode
    measurePt1,       \* TrackStore.measurePt1: Null or <<point>>
    measurePt2,       \* TrackStore.measurePt2: Null or <<point>>
    measureRealDist,  \* TrackStore.measureRealDist
    trackJson,        \* the track.json the latest downloadTrackJson saved:
                      \*   Null or <<the TrackDef written>>
    \* ---- centerline (centerline-params.ts, frenet.ts)
    cpc,        \* "input" | "parameterized" | "queried" | "returned" |
                \*   "posed" | "rated" | "extracted"
    unit,       \* the length of one grid step, a fraction [num, den]
    points,     \* the centerline handed to parameterizeCenterline
    params,     \* its result: [threw, points, arcLengths, totalLength,
                \*   headings, curvatures]
    query,      \* the world point handed to worldToFrenet
    nearest,    \* the result of the nearestArcLength call it makes
    frenet,     \* the result of worldToFrenet
    world,      \* the result of frenetToWorld applied to that FrenetPose
    poseArg,    \* the s handed to poseAtArcLength
    pose,       \* the result of poseAtArcLength
    rateArgs,   \* the arguments of arcLengthRate: [s, d, headingError, speed]
    rate,       \* the result of arcLengthRate
    \* ---- zone query (zone-query.ts)
    zpc,        \* "input" | "queried"
    zones,      \* TrackStore.zones, the zones handed to the geometry
    zonePt,     \* the point handed to queryZonesAtPoint
    zoneOpts,   \* its options: [maxDistance], Undefined or <<a distance>>
    zoneResult, \* its result: [containing, nearest]
    \* ---- track limits (track-limits.ts)
    numSamples, \* the numSamples handed to extractTrackLimits
    limits,     \* its result: [leftBounds, rightBounds, samples, totalLength]
    \* ---- centerline demo (centerline-demo.ts)
    centerline,     \* TrackStore.centerline
    vehicleState,   \* CenterlineDemoComponent.vehicleState: [s, d, psi, v]
    steeringAngle,  \* CenterlineDemoComponent.steeringAngle
    isRunning,      \* CenterlineDemoComponent.isRunning
    lastFrameTime,  \* CenterlineDemoComponent.lastFrameTime
    frames,         \* the number of animation frames so far
    calls,          \* the geometry functions the latest handler called
    \* ---- coordinate conversions (coord-helpers.ts)
    coord,          \* the sizes, the point the conversions started from and
                    \*   the point they have reached: [px, meters, frame,
                    \*   start, applied, value, at]
    \* ---- callers of the geometry
    recalls         \* how often a caller has come back to call an operation
                    \*   again on the inputs it still holds

quadVars == <<qpc, raw, ordered, vargs, vres>>

storeVars == <<pickerPts, step, srcImage, quadPx, topDown, readyP, inflight, picked, warpCall,
               loads>>

measureVars == <<measureMode, measurePt1, measurePt2, measureRealDist>>

sessionVars == <<name, widthMeters, heightMeters, topDownW, topDownH, srcImageName,
                 importTopdownImg, importTrack, measureVars, trackJson>>

clVars == <<cpc, unit, points, params, query, nearest, frenet>>

frVars == <<world, poseArg, pose, rateArgs, rate>>

zoneVars == <<zpc, zones, zonePt, zoneOpts, zoneResult>>

limitVars == <<numSamples, limits>>

demoVars == <<centerline, vehicleState, steeringAngle, isRunning, lastFrameTime, frames, calls>>

coordVars == <<coord>>

callVars == <<recalls>>

vars == <<quadVars, storeVars, sessionVars, clVars, frVars, zoneVars, limitVars, demoVars, coordVars,
          callVars>>

\* what the operations of one part leave alone
notQuadVars == <<storeVars, sessionVars, clVars, frVars, zoneVars, limitVars, demoVars, coordVars, callVars>>

notStoreVars == <<quadVars, clVars, frVars, zoneVars, limitVars, demoVars, coordVars, callVars>>

notClVars == <<quadVars, storeVars, sessionVars, zoneVars, limitVars, demoVars, coordVars, callVars>>

notZoneVars == <<quadVars, storeVars, sessionVars, clVars, frVars, limitVars, demoVars, coordVars, callVars>>

notDemoVars == <<quadVars, storeVars, sessionVars, clVars, frVars, zoneVars, limitVars, coordVars, callVars>>

----------------------------------------------------------------------------
(* Bounds of the model *)

\* pixel x coordinates of quad corners are drawn from 0..QuadMaxX
QuadMaxX == 1
\* pixel y coordinates of quad corners are drawn from 0..QuadMaxY
QuadMaxY == 2

\* the quad picker offers the rows 0..PickMaxY of a grid of pixels, two
\* columns wide
PickMaxY == 2
\* the images a user loads are numbered 1..MaxImages
MaxImages == 1
\* centerline coordinates are drawn from the grid steps 0..CenterMax
CenterMax == 1
\* lengths (Math.hypot) are kept in fixed point, Prec parts per grid step
Prec == 1000
\* poseAtArcLength is asked for arc lengths from -MaxArc to MaxArc grid steps
MaxArc == 3

----------------------------------------------------------------------------
(* Small helpers of the model (no counterpart in the code) *)

Abs(n) == IF n < 0 THEN -n ELSE n

Sign(n) == IF n > 0 THEN 1 ELSE IF n < 0 THEN -1 ELSE 0

Min2(a, b) == IF a < b THEN a ELSE b

Max2(a, b) == IF a > b THEN a ELSE b

Pt(px, py) == [x |-> px, y |-> py]

\* all sequences over S of length exactly n
RECURSIVE SeqsOfLen(_, _)
SeqsOfLen(S, n) ==
    IF n = 0 THEN {<<>>}
    ELSE {Append(s, e) : s \in SeqsOfLen(S, n - 1), e \in S}

\* the optional value of an options field: <<>> is undefined, <<v>> is v
Undefined == <<>>

\* a signal holding null, or <<v>> for the value v
Null == <<>>

Some(v) == <<v>>

\* JavaScript's  a ?? b  on an optional value
OrElse(o, d) == IF o = Undefined THEN d ELSE o[1]

----------------------------------------------------------------------------
(* geometry.ts: quad ordering *)

\* Math.atan2(dy, dx) lies in (-pi, pi].  Two angles are compared exactly:
\* first by the half-plane (below the x axis, on its positive side, above,
\* on its negative side), then by the cross product inside a half-plane.
\* atan2(0, 0) is 0 and atan2(0, dx < 0) is pi.
Atan2Half(dy, dx) ==
    IF dy < 0 THEN 0
    ELSE IF dy > 0 THEN 2
    ELSE IF dx >= 0 THEN 1 ELSE 3

\* Math.atan2(u.dy, u.dx) - Math.atan2(v.dy, v.dx), as a sign
Atan2Cmp(u, v) ==
    LET hu == Atan2Half(u.dy, u.dx)
        hv == Atan2Half(v.dy, v.dx)
    IN  IF hu # hv THEN Sign(hu - hv)
        ELSE IF hu \in {1, 3} THEN 0
        ELSE -Sign(u.dx * v.dy - u.dy * v.dx)

\* Array.prototype.sort((u, v) => u.a - v.a): a stable sort, so entries
\* with equal angles keep the order they had
RECURSIVE InsertByAngle(_, _)
InsertByAngle(e, s) ==
    IF s = <<>> THEN <<e>>
    ELSE IF Atan2Cmp(Head(s), e) <= 0
         THEN <<Head(s)>> \o InsertByAngle(e, Tail(s))
         ELSE <<e>> \o s

\* mutant of SortByAngle: sort() called without a working comparator leaves
\* the entries in the caller's order
SortByAngle_Unsorted(s) == s

RECURSIVE SortByAngle(_)
SortByAngle(s) ==
    IF s = <<>> THEN <<>>
    ELSE InsertByAngle(s[Len(s)], SortByAngle(SubSeq(s, 1, Len(s) - 1)))

\* the loop of step 3: index (1-based) of the point with the smallest y,
\* then the smallest x; the first such point wins
RECURSIVE TopLeftIndex(_, _, _)
TopLeftIndex(byAngle, i, tlIdx) ==
    IF i > Len(byAngle) THEN tlIdx
    ELSE LET a == byAngle[i]
             b == byAngle[tlIdx]
         IN  IF a.y < b.y \/ (a.y = b.y /\ a.x < b.x)
             THEN TopLeftIndex(byAngle, i + 1, i)
             ELSE TopLeftIndex(byAngle, i + 1, tlIdx)

\* step 4 of orderQuadTLTRBRBLv2: swap positions 1 and 3 (0-based) when the
\* second point is lower than the fourth
FlipIfSecondBelowFourth(o) ==
    IF o[2].y > o[4].y THEN <<o[1], o[4], o[3], o[2]>> ELSE o

\* orderQuadTLTRBRBLv2(raw).  The centroid c is sum/4; the direction of
\* p - c is that of 4p - sum, which keeps the arithmetic in integers.
orderQuadTLTRBRBLv2(pts) ==
    IF Len(pts) # 4 THEN [threw |-> TRUE, val |-> <<>>]
    ELSE
    LET sx == pts[1].x + pts[2].x + pts[3].x + pts[4].x
        sy == pts[1].y + pts[2].y + pts[3].y + pts[4].y
        withAngle == [i \in 1..4 |->
                        [p |-> pts[i], dy |-> 4 * pts[i].y - sy,
                                       dx |-> 4 * pts[i].x - sx]]
        sorted == SortByAngle(withAngle)
        byAngle == [i \in 1..4 |-> sorted[i].p]
        tlIdx == TopLeftIndex(byAngle, 2, 1)
        rot == [i \in 1..4 |-> byAngle[((tlIdx - 1 + i - 1) % 4) + 1]]
    IN  [threw |-> FALSE, val |-> FlipIfSecondBelowFourth(rot)]

\* what a call of orderQuadTLTRBRBLv2 leaves in the array it was handed:
\* raw.map(...) builds a new array and .sort orders that one in place, and
\* ordered is built from it, so raw keeps its points in the caller's order
RawAfterOrderQuad_InPlace(pts) ==
    IF Len(pts) # 4 THEN pts ELSE orderQuadTLTRBRBLv2(pts).val

RawAfterOrderQuad(pts) == pts

\* pts.reduce((a, b) => (key(a) < key(b) ? a : b)) over the keys of the
\* points: the index of the point it returns.  On a tie the later point wins.
RECURSIVE ReduceLess(_, _, _)
ReduceLess(keys, i, acc) ==
    IF i > Len(keys) THEN acc
    ELSE ReduceLess(keys, i + 1, IF keys[acc] < keys[i] THEN acc ELSE i)

\* the deprecated orderQuadTLTRBRBL: extremes of x + y and x - y
\* (key(a) > key(b) is -key(a) < -key(b))
orderQuadTLTRBRBL(pts) ==
    IF Len(pts) # 4 THEN [threw |-> TRUE, val |-> <<>>]
    ELSE
    LET sum  == [i \in 1..4 |-> pts[i].x + pts[i].y]
        diff == [i \in 1..4 |-> pts[i].x - pts[i].y]
        neg(k) == [i \in 1..4 |-> -k[i]]
        tl == pts[ReduceLess(sum, 2, 1)]
        br == pts[ReduceLess(neg(sum), 2, 1)]
        tr == pts[ReduceLess(neg(diff), 2, 1)]
        bl == pts[ReduceLess(diff, 2, 1)]
    IN  [threw |-> FALSE, val |-> <<tl, tr, br, bl>>]

----------------------------------------------------------------------------
(* geometry.ts: quad validation *)

dist2(a, b) == (a.x - b.x) * (a.x - b.x) + (a.y - b.y) * (a.y - b.y)

\* the shoelace sum of quadArea before Math.abs(a) / 2
ShoelaceSum(pts) ==
    LET term(i) == LET j == (i % 4) + 1
                   IN  pts[i].x * pts[j].y - pts[j].x * pts[i].y
    IN  term(1) + term(2) + term(3) + term(4)

\* quadArea(pts) is Math.abs(a) / 2; the model keeps twice the area, an
\* integer, and doubles the threshold it is compared with
quadAreaTimes2(pts) == Abs(ShoelaceSum(pts))

cross(p, q, r) == (q.x - p.x) * (r.y - p.y) - (q.y - p.y) * (r.x - p.x)

isConvexQuad(p) ==
    LET s1 == Sign(cross(p[1], p[2], p[3]))
        s2 == Sign(cross(p[2], p[3], p[4]))
        s3 == Sign(cross(p[3], p[4], p[1]))
        s4 == Sign(cross(p[4], p[1], p[2]))
    IN  s1 # 0 /\ s1 = s2 /\ s2 = s3 /\ s3 = s4

\* mutant of inBounds: the right and bottom borders excluded
inBounds_Exclusive(p, w, h) == p.x >= 0 /\ p.y >= 0 /\ p.x < w /\ p.y < h

inBounds(p, w, h) == p.x >= 0 /\ p.y >= 0 /\ p.x <= w /\ p.y <= h

\* opts?.minPointSeparationPx ?? 20
DefaultMinPointSeparationPx == 20

\* opts?.minAreaPx2 ?? 5000
DefaultMinAreaPx2 == 5000

ReasonCount     == "Need exactly 4 points"
ReasonBounds    == "A point is outside the image bounds"
ReasonTooClose  == "Two points are too close together"
ReasonNonConvex == "Quad is self-intersecting or non-convex (bow-tie)"
ReasonArea      == "Quad area is too small / nearly degenerate"

Ok == [ok |-> TRUE, reason |-> ""]

Err(reason) == [ok |-> FALSE, reason |-> reason]

\* the separation test of validateQuadTLTRBRBL: some pair i < j with
\* dist2(pts[i], pts[j]) < minSep2
SomePairCloserThan(pts, minSep2) ==
    \E i \in 1..4 : \E j \in (i + 1)..4 : dist2(pts[i], pts[j]) < minSep2

\* mutant of AreaBelow: the comparison turned around
AreaBelow_Inverted(pts, minArea) == quadAreaTimes2(pts) > 2 * minArea

\* the area test of validateQuadTLTRBRBL: quadArea(pts) < minArea
AreaBelow(pts, minArea) == quadAreaTimes2(pts) < 2 * minArea

\* mutant of validateQuadTLTRBRBL: convexity tested before separation
validateQuad_ConvexFirst(pts, imageW, imageH, opts) ==
    IF Len(pts) # 4 THEN Err(ReasonCount)
    ELSE
    LET minSep  == OrElse(opts.minPointSeparationPx, DefaultMinPointSeparationPx)
        minSep2 == minSep * minSep
        minArea == OrElse(opts.minAreaPx2, DefaultMinAreaPx2)
    IN  IF \E i \in 1..4 : ~inBounds(pts[i], imageW, imageH)
            THEN Err(ReasonBounds)
        ELSE IF ~isConvexQuad(pts) THEN Err(ReasonNonConvex)
        ELSE IF SomePairCloserThan(pts, minSep2) THEN Err(ReasonTooClose)
        ELSE IF AreaBelow(pts, minArea) THEN Err(ReasonArea)
        ELSE Ok

validateQuadTLTRBRBL(pts, imageW, imageH, opts) ==
    IF Len(pts) # 4 THEN Err(ReasonCount)
    ELSE
    LET minSep  == OrElse(opts.minPointSeparationPx, DefaultMinPointSeparationPx)
        minSep2 == minSep * minSep
        minArea == OrElse(opts.minAreaPx2, DefaultMinAreaPx2)
    IN  IF \E i \in 1..4 : ~inBounds(pts[i], imageW, imageH)
            THEN Err(ReasonBounds)
        ELSE IF SomePairCloserThan(pts, minSep2) THEN Err(ReasonTooClose)
        ELSE IF ~isConvexQuad(pts) THEN Err(ReasonNonConvex)
        ELSE IF AreaBelow(pts, minArea) THEN Err(ReasonArea)
        ELSE Ok

----------------------------------------------------------------------------
(* The inputs of the quad functions *)

QuadPoints == {Pt(px, py) : px \in 0..QuadMaxX, py \in 0..QuadMaxY}

\* arrays of the wrong length: every array of 3 points, and arrays of
\* 0, 1, 2 and 5 points
WrongCountInputs ==
    SeqsOfLen(QuadPoints, 3) \cup
    {<<>>, <<Pt(0, 0)>>, <<Pt(0, 0), Pt(1, 0)>>,
     <<Pt(0, 0), Pt(1, 0), Pt(1, 1), Pt(0, 1), Pt(0, 0)>>}

QuadInputs == SeqsOfLen(QuadPoints, 4) \cup WrongCountInputs

\* image sizes: one that holds the whole grid and one that cuts its last
\* row off
ImageSizes == {[w |-> QuadMaxX, h |-> QuadMaxY], [w |-> QuadMaxX, h |-> QuadMaxY - 1]}

\* thresholds handed to validateQuadTLTRBRBL; Undefined takes the default
Opts(s, a) == [minPointSeparationPx |-> s, minAreaPx2 |-> a]

OptsChoices ==
    {Opts(Undefined, Undefined), Opts(Undefined, Some(1)), Opts(Some(1), Undefined),
     Opts(Some(0), Some(1)), Opts(Some(1), Some(1)), Opts(Some(0), Some(2)),
     Opts(Some(1), Some(2)), Opts(Some(-2), Some(1))}

NoResult == [ok |-> FALSE, reason |-> "(not called)"]

NoArgs == [w |-> 0, h |-> 0,
           opts |-> [minPointSeparationPx |-> Undefined, minAreaPx2 |-> Undefined]]

NotOrdered == [threw |-> FALSE, val |-> <<>>]

\* the store as constructed (track-store.ts lines 19-35, opencv.ts line 35)
\* the initial values of the store's signals (track-store.ts, lines 19-35)
DefaultSrcImageName == "track.png"

DefaultTopDownW == 1600

DefaultTopDownH == 900

DefaultName == <<"R", "C", " ", "T", "r", "a", "c", "k">>

DefaultWidthMeters == 20

DefaultHeightMeters == 12

\* the session signals as the store's field initializers leave them
SessionConstructed ==
    /\ name = DefaultName
    /\ widthMeters = [num |-> DefaultWidthMeters, den |-> 1]
    /\ heightMeters = [num |-> DefaultHeightMeters, den |-> 1]
    /\ topDownW = DefaultTopDownW
    /\ topDownH = DefaultTopDownH
    /\ srcImageName = DefaultSrcImageName
    /\ importTopdownImg = Null
    /\ importTrack = Null
    /\ measureMode = FALSE
    /\ measurePt1 = Null
    /\ measurePt2 = Null
    /\ measureRealDist = 0
    /\ trackJson = Null

StoreConstructed ==
    /\ pickerPts = <<>>
    /\ step = "upload"
    /\ srcImage = Null
    /\ quadPx = Null
    /\ topDown = Null
    /\ readyP = "unset"
    /\ inflight = Null
    /\ picked = Null
    /\ warpCall = Null
    /\ loads = 0
    /\ SessionConstructed

NoParams == [threw |-> FALSE, points |-> <<>>, arcLengths |-> <<>>,
             totalLength |-> 0, headings |-> <<>>, curvatures |-> <<>>]

NoNearest == [s |-> [num |-> 0, den |-> 1], distanceSq |-> [num |-> 0, den |-> 1],
              d |-> [num |-> 0, den |-> 1]]

NoFrenet == [s |-> [num |-> 0, den |-> 1], d |-> [num |-> 0, den |-> 1],
             heading |-> 0, headingError |-> [num |-> 0, den |-> 1]]

NoWorld == [x |-> [num |-> 0, den |-> 1], y |-> [num |-> 0, den |-> 1],
            heading |-> [num |-> 0, den |-> 1]]

NoPose == [pos |-> [x |-> [num |-> 0, den |-> 1], y |-> [num |-> 0, den |-> 1]],
           heading |-> [num |-> 0, den |-> 1],
           curvature |-> [num |-> 0, den |-> 1]]

NoRateArgs == [s |-> [num |-> 0, den |-> 1], d |-> [num |-> 0, den |-> 1],
               headingError |-> 0, speed |-> 0]

NoRate == [zero |-> TRUE, numer |-> 0, denom |-> [num |-> 1, den |-> 1]]

FrenetIdle ==
    /\ world = NoWorld
    /\ poseArg = [num |-> 0, den |-> 1]
    /\ pose = NoPose
    /\ rateArgs = NoRateArgs
    /\ rate = NoRate

NoZoneResult == [containing |-> <<>>, nearest |-> <<>>]

ZoneIdle ==
    /\ zpc = "idle"
    /\ zones = <<>>
    /\ zonePt = Pt(0, 0)
    /\ zoneOpts = [maxDistance |-> <<>>]
    /\ zoneResult = NoZoneResult

NoLimits == [leftBounds |-> <<>>, rightBounds |-> <<>>, samples |-> 0, totalLength |-> 0]

LimitsIdle ==
    /\ numSamples = 0
    /\ limits = NoLimits

\* the demo component as constructed (centerline-demo.ts lines 80-91)
DemoConstructed ==
    /\ centerline = <<>>
    /\ vehicleState = [s |-> 0, d |-> 0, psi |-> 0, v |-> 0]
    /\ steeringAngle = 0
    /\ isRunning = TRUE
    /\ lastFrameTime = 0
    /\ frames = 0
    /\ calls = <<>>

\* no conversion has been asked for
NoConversion == [px |-> <<>>, meters |-> <<>>, frame |-> "none", start |-> <<>>,
                 applied |-> <<>>, value |-> <<>>, at |-> "none"]

CoordIdle == coord = NoConversion

NoRecalls == recalls = 0

CenterlineIdle ==
    /\ cpc = "idle"
    /\ unit = [num |-> 1, den |-> 1]
    /\ points = <<>>
    /\ params = NoParams
    /\ query = Pt(0, 0)
    /\ nearest = NoNearest
    /\ frenet = NoFrenet
    /\ FrenetIdle

QuadIdle ==
    /\ qpc = "idle"
    /\ raw = <<>>
    /\ ordered = NotOrdered
    /\ vargs = NoArgs
    /\ vres = NoResult

InitQuad ==
    /\ qpc = "input"
    /\ raw \in QuadInputs
    /\ ordered = NotOrdered
    /\ vargs = NoArgs
    /\ vres = NoResult
    /\ StoreConstructed
    /\ CenterlineIdle
    /\ ZoneIdle
    /\ LimitsIdle
    /\ DemoConstructed
    /\ CoordIdle
    /\ NoRecalls

\* a caller applies orderQuadTLTRBRBLv2 to the input
OrderQuad ==
    /\ qpc = "input"
    /\ ordered' = orderQuadTLTRBRBLv2(raw)
    /\ raw' = RawAfterOrderQuad(raw)
    /\ qpc' = "ordered"
    /\ UNCHANGED <<vargs, vres>>
    /\ UNCHANGED notQuadVars

\* a caller applies validateQuadTLTRBRBL to the input
ValidateQuad ==
    /\ qpc = "input"
    /\ \E size \in ImageSizes : \E opts \in OptsChoices :
         /\ vargs' = [w |-> size.w, h |-> size.h, opts |-> opts]
         /\ vres' = validateQuadTLTRBRBL(raw, size.w, size.h, opts)
    /\ qpc' = "validated"
    /\ UNCHANGED <<raw, ordered>>
    /\ UNCHANGED notQuadVars

NextQuad == OrderQuad \/ ValidateQuad

SpecQuad == InitQuad /\ [][NextQuad]_vars

----------------------------------------------------------------------------
(* opencv.ts and track-store.ts: the onQuad path *)

\* Opencv.isValidQuad: no two points closer than 10 px, and the four cross
\* products of one sign (which four zeros are, too)
isValidQuad(pts) ==
    IF Len(pts) # 4 THEN FALSE
    ELSE IF \E i \in 1..4 : \E j \in (i + 1)..4 : dist2(pts[i], pts[j]) < 10 * 10
         THEN FALSE
    ELSE LET signs == <<Sign(cross(pts[1], pts[2], pts[3])),
                        Sign(cross(pts[2], pts[3], pts[4])),
                        Sign(cross(pts[3], pts[4], pts[1])),
                        Sign(cross(pts[4], pts[1], pts[2]))>>
         IN  \A i \in 1..4 : signs[i] = signs[1]

\* what the OpenCV calls of warpPerspective (imread .. imshow) can do with an
\* image and a quad: throw, draw a canvas that is mostly blank, or draw the
\* rectified image
CvOutcomes == {"throws", "blank", "drawn"}

\* Opencv.warpPerspective: a blank canvas for a quad isValidQuad rejects,
\* else what OpenCV does
warpPerspective(quad, cvOutcome) ==
    IF ~isValidQuad(quad) THEN "blank" ELSE cvOutcome

\* TrackStore.onQuad from the try block on: the canvas that becomes topDown,
\* outW by outH pixels.  A throw and a mostly blank canvas both end in
\* fallbackDraw.
CanvasAfterWarp(img, quad, outW, outH, cvOutcome) ==
    LET warped == warpPerspective(quad, cvOutcome)
    IN  IF warped = "drawn" THEN [kind |-> "warp", img |-> img, w |-> outW, h |-> outH]
        ELSE [kind |-> "fallback", img |-> img, w |-> outW, h |-> outH]

\* the deprecated ordering in the place of the new one (line 169, commented out)
onQuadOrder_Legacy(rawPts) == orderQuadTLTRBRBL(rawPts)

\* TrackStore.onQuad, lines 169-170: the ordering it applies to rawPts
onQuadOrder(rawPts) == orderQuadTLTRBRBLv2(rawPts)

\* the pixel grid of the quad picker: PickStep pixels between grid lines
PickStep == 50

PickPoints == {Pt(PickStep * gx, PickStep * gy) : gx \in 0..1, gy \in 0..PickMaxY}

\* QuadPicker.emitQuad emits only when it holds exactly 4 points
Picks == SeqsOfLen(PickPoints, 4)

\* the size of the loaded images: the picker's canvas is sized to the image
ImageW == PickStep

ImageH == PickStep * PickMaxY

Images == 1..MaxImages

\* the name of the file an image was read from
FileName(img) == "image" \o ToString(img)

InitStore ==
    /\ pickerPts \in Picks
    /\ step = "upload"
    /\ srcImage = Null
    /\ quadPx = Null
    /\ topDown = Null
    /\ readyP = "unset"
    /\ inflight = Null
    /\ picked = Null
    /\ warpCall = Null
    /\ loads = 0
    /\ SessionConstructed
    /\ QuadIdle
    /\ CenterlineIdle
    /\ ZoneIdle
    /\ LimitsIdle
    /\ DemoConstructed
    /\ CoordIdle
    /\ NoRecalls

\* TrackStore.onFile up to the point where the image starts to load: the
\* file's name is kept
OnFile(img) ==
    /\ srcImageName' = FileName(img)
    /\ UNCHANGED <<name, widthMeters, heightMeters, topDownW, topDownH>>
    /\ UNCHANGED <<importTopdownImg, importTrack, measureVars, trackJson>>
    /\ UNCHANGED storeVars
    /\ UNCHANGED notStoreVars

\* the img.onload that onFile installs: the new source image replaces the
\* quad, the top-down and the zones.  (Which onFile call the load belongs to
\* is not kept: an image may finish loading at any time.)
OnFileLoaded(img) ==
    /\ srcImage' = Some(img)
    /\ quadPx' = Null
    /\ topDown' = Null
    /\ zones' = <<>>
    /\ step' = "quad"
    /\ picked' = Null
    /\ UNCHANGED <<pickerPts, readyP, inflight, warpCall, loads>>
    /\ UNCHANGED <<name, widthMeters, heightMeters, topDownW, topDownH, srcImageName>>
    /\ UNCHANGED <<importTopdownImg, importTrack, measureVars, trackJson>>
    /\ UNCHANGED <<quadVars, clVars, frVars, limitVars, demoVars, coordVars, callVars>>
    /\ UNCHANGED <<zpc, zonePt, zoneOpts, zoneResult>>

\* a promise that is rejected is replaced by a new one, with a new script load
ReadyCalled_Retry ==
    IF readyP \in {"unset", "rejected"}
    THEN \/ readyP' = "resolved" /\ UNCHANGED loads
         \/ readyP' = "pending" /\ loads' = loads + 1
    ELSE UNCHANGED <<readyP, loads>>

\* Opencv.ready(), called by onQuad: the first call makes the promise, which
\* is resolved at once when cv is on the window already (or there is no
\* window) and else appends the script element; later calls return the
\* promise that is there, whatever state it is in
ReadyCalled ==
    IF readyP = "unset"
    THEN \/ readyP' = "resolved" /\ UNCHANGED loads
         \/ readyP' = "pending" /\ loads' = loads + 1
    ELSE UNCHANGED <<readyP, loads>>

\* QuadPicker.emitQuad -> TrackEditor.onQuad -> TrackStore.onQuad(rawPts), up
\* to  await this.cv.ready().  One call is in flight at a time.
OnQuadStart ==
    /\ inflight = Null
    /\ Len(pickerPts) = 4
    /\ LET rawPts == pickerPts
           orderedv2 == onQuadOrder(rawPts).val
       IN  /\ quadPx' = Some(orderedv2)
           /\ picked' = Some(rawPts)
           /\ warpCall' = Null
           /\ IF srcImage = Null
              THEN UNCHANGED <<inflight, readyP, loads>>
              ELSE /\ ReadyCalled
                   /\ inflight' = Some([img |-> srcImage[1], quad |-> orderedv2,
                                        awaited |-> readyP'])
    /\ UNCHANGED <<pickerPts, step, srcImage, topDown>>
    /\ UNCHANGED sessionVars
    /\ UNCHANGED notStoreVars

\* the OpenCV script loads and its runtime initializes
CvLoadSucceeds ==
    /\ readyP = "pending"
    /\ readyP' = "resolved"
    /\ UNCHANGED <<pickerPts, step, srcImage, quadPx, topDown, inflight, picked, warpCall,
                   loads>>
    /\ UNCHANGED sessionVars
    /\ UNCHANGED notStoreVars

\* the OpenCV script fails to load
CvLoadFails ==
    /\ readyP = "pending"
    /\ readyP' = "rejected"
    /\ UNCHANGED <<pickerPts, step, srcImage, quadPx, topDown, inflight, picked, warpCall,
                   loads>>
    /\ UNCHANGED sessionVars
    /\ UNCHANGED notStoreVars

\* onQuad after the await: read the output size, warp, fall back if needed,
\* set topDown and step
OnQuadResume(cvOutcome) ==
    /\ inflight # Null
    /\ readyP = "resolved"
    /\ LET call == inflight[1]
           outW == topDownW
           outH == topDownH
       IN  /\ warpCall' = Some([img |-> call.img, quad |-> call.quad])
           /\ topDown' = Some(CanvasAfterWarp(call.img, call.quad, outW, outH, cvOutcome))
    /\ step' = "scale"
    /\ inflight' = Null
    /\ UNCHANGED <<pickerPts, srcImage, quadPx, readyP, picked, loads>>
    /\ UNCHANGED sessionVars
    /\ UNCHANGED notStoreVars

\* the awaited promise rejects: onQuad ends there
OnQuadRejected ==
    /\ inflight # Null
    /\ readyP = "rejected"
    /\ inflight' = Null
    /\ UNCHANGED <<pickerPts, step, srcImage, quadPx, topDown, readyP, picked, warpCall,
                   loads>>
    /\ UNCHANGED sessionVars
    /\ UNCHANGED notStoreVars

\* resetAll ends the onQuad call that is suspended
InflightAfterReset_Cancelled == Null

\* resetAll sets signals only: an onQuad call suspended at its await stays
\* suspended, with the image and the quad it holds
InflightAfterReset == inflight

\* TrackStore.resetAll
ResetAll ==
    /\ step' = "upload"
    /\ srcImage' = Null
    /\ quadPx' = Null
    /\ topDown' = Null
    /\ picked' = Null
    /\ zones' = <<>>
    /\ centerline' = <<>>
    /\ calls' = <<>>
    /\ measureMode' = FALSE
    /\ measurePt1' = Null
    /\ measurePt2' = Null
    /\ measureRealDist' = 0
    /\ inflight' = InflightAfterReset
    /\ UNCHANGED <<pickerPts, readyP, warpCall, loads>>
    /\ UNCHANGED <<name, widthMeters, heightMeters, topDownW, topDownH, srcImageName>>
    /\ UNCHANGED <<importTopdownImg, importTrack, trackJson>>
    /\ UNCHANGED <<quadVars, clVars, frVars, limitVars, coordVars, callVars>>
    /\ UNCHANGED <<zpc, zonePt, zoneOpts, zoneResult>>
    /\ UNCHANGED <<vehicleState, steeringAngle, isRunning, lastFrameTime, frames>>

NextStore ==
    \/ \E img \in Images : OnFileLoaded(img)
    \/ OnQuadStart
    \/ CvLoadSucceeds
    \/ CvLoadFails
    \/ \E cvOutcome \in CvOutcomes : OnQuadResume(cvOutcome)
    \/ OnQuadRejected
    \/ ResetAll

SpecStore == InitStore /\ [][NextStore]_vars

----------------------------------------------------------------------------
(* centerline-params.ts and frenet.ts: arc length and nearest point *)

\* A coordinate of the centerline is a grid step k and stands for the number
\* k * unit.num / unit.den.  A length is kept in fixed point: the integer L
\* stands for L / Prec grid steps.  A quotient is kept as an exact fraction.
Frac(n, d) == [num |-> n, den |-> d]

FracLess(a, b) == a.num * b.den < b.num * a.den

FracEq(a, b) == a.num * b.den = b.num * a.den

\* NaN is the fraction 0/0: FracLess is false of it, as < is of NaN
NaN == [num |-> 0, den |-> 0]

IsNaN(f) == f.den = 0

RECURSIVE Gcd(_, _)
Gcd(a, b) == IF b = 0 THEN a ELSE Gcd(b, a % b)

\* the same number in lowest terms
Norm(f) ==
    IF IsNaN(f) THEN NaN
    ELSE LET g == Gcd(Abs(f.num), f.den)
         IN  Frac(f.num \div g, f.den \div g)

FracAdd(a, b) ==
    IF IsNaN(a) \/ IsNaN(b) THEN NaN
    ELSE LET l == (a.den \div Gcd(a.den, b.den)) * b.den
         IN  Norm(Frac(a.num * (l \div a.den) + b.num * (l \div b.den), l))

FracNeg(a) == Frac(0 - a.num, a.den)

\* a / b rounded down, for integers a and b # 0
QuotFp(a, b) == IF b > 0 THEN a \div b ELSE (0 - a) \div (0 - b)

\* the largest integer not above the fraction f
Floor(f) == f.num \div f.den

\* f % m of JavaScript for an integer m >= 0: NaN for m = 0, else the
\* remainder of the truncated division, which has the sign of f
JsRem(f, m) ==
    IF IsNaN(f) \/ m = 0 THEN NaN
    ELSE Frac(Sign(f.num) * (Abs(f.num) % (m * f.den)), f.den)

\* the largest r in lo..hi with r * r <= x
RECURSIVE ISqrtSearch(_, _, _)
ISqrtSearch(x, lo, hi) ==
    IF lo >= hi THEN lo
    ELSE LET mid == (lo + hi + 1) \div 2
         IN  IF mid * mid <= x THEN ISqrtSearch(x, mid, hi)
                               ELSE ISqrtSearch(x, lo, mid - 1)

\* Math.hypot(dx, dy), in fixed point: the root lies between the longer
\* leg and the sum of the legs
Hypot(dx, dy) ==
    ISqrtSearch((dx * dx + dy * dy) * Prec * Prec,
                Max2(Abs(dx), Abs(dy)) * Prec,
                (Abs(dx) + Abs(dy)) * Prec)

\* Angles are kept in fixed point as well: the integer a stands for a / Prec
\* radians.  Math.PI:
PiFp == (355 * Prec + 56) \div 113

\* x * y for fixed-point x and y
MulFp(x, y) == (x * y) \div Prec

\* the sine of x for |x| <= pi/2, by its Taylor polynomial of degree 9
SinTaylor(x) ==
    LET x2 == MulFp(x, x)
        t3 == MulFp(x, x2) \div 6
        t5 == MulFp(t3, x2) \div 20
        t7 == MulFp(t5, x2) \div 42
        t9 == MulFp(t7, x2) \div 72
    IN  x - t3 + t5 - t7 + t9

\* the angle in (-pi, pi] that differs from x by a multiple of 2 pi
WrapAngle(x) == ((x + PiFp - 1) % (2 * PiFp)) - PiFp + 1

\* Math.sin(x), in fixed point
Sin(x) ==
    LET w == WrapAngle(x)
    IN  IF w > PiFp \div 2 THEN SinTaylor(PiFp - w)
        ELSE IF w < 0 - (PiFp \div 2) THEN SinTaylor(0 - PiFp - w)
        ELSE SinTaylor(w)

\* Math.cos(x), in fixed point
Cos(x) == Sin(x + PiFp \div 2)

\* the largest angle th in lo..hi with tan(th) <= a / b
RECURSIVE AtanSearch(_, _, _, _)
AtanSearch(a, b, lo, hi) ==
    IF lo >= hi THEN lo
    ELSE LET mid == (lo + hi + 1) \div 2
         IN  IF b * Sin(mid) <= a * Cos(mid) THEN AtanSearch(a, b, mid, hi)
                                             ELSE AtanSearch(a, b, lo, mid - 1)

\* Math.atan2(dy, dx), in fixed point; atan2(0, 0) = 0
Atan2(dy, dx) ==
    IF dy = 0 THEN (IF dx >= 0 THEN 0 ELSE PiFp)
    ELSE IF dx = 0 THEN (IF dy > 0 THEN PiFp \div 2 ELSE 0 - (PiFp \div 2))
    ELSE LET th == AtanSearch(Abs(dy), Abs(dx), 0, PiFp \div 2)
         IN  IF dx > 0 THEN (IF dy > 0 THEN th ELSE 0 - th)
             ELSE (IF dy > 0 THEN PiFp - th ELSE th - PiFp)

\* the number of segments whose length enters arcLengths when the centerline
\* has n points:  if (i < points.length - 1)
ArcLengthSegments_Closed(n) == n

ArcLengthSegments(n) == n - 1

\* const pNext = points[(i + 1) % points.length], with indices from 1
NextIndex(i, n) == (i % n) + 1

\* i === 0 ? length - 1 : i - 1, with indices from 1
PrevIndex(i, n) == IF i = 1 THEN n ELSE i - 1

\* the first loop from iteration i on, pushing the lengths of segments i..k
\* on the arcLengths array
RECURSIVE ArcLengthsFrom(_, _, _, _)
ArcLengthsFrom(pts, i, k, arcLengths) ==
    IF i > k THEN arcLengths
    ELSE LET p      == pts[i]
             pNext  == pts[NextIndex(i, Len(pts))]
             segLen == Hypot(pNext.x - p.x, pNext.y - p.y)
         IN  ArcLengthsFrom(pts, i + 1, k, Append(arcLengths, arcLengths[i] + segLen))

\* const heading = Math.atan2(dy, dx)
Heading(p, pNext) == Atan2(pNext.y - p.y, pNext.x - p.x)

\* dS > 0.1, for a fixed-point length dS of a centerline with grid step u
AboveCurvatureGuard(dS, u) == dS * u.num * 10 > u.den * Prec

\* dS > 0.1 ? dHeading / dS : 0, in fixed point: radians per grid step
Curvature(hNext, hPrev, dS, u) ==
    IF AboveCurvatureGuard(dS, u)
    THEN QuotFp((hNext - hPrev) * Prec, dS)
    ELSE 0

parameterizeCenterline(pts, u) ==
    IF Len(pts) < 2
    THEN [NoParams EXCEPT !.threw = TRUE]
    ELSE LET n          == Len(pts)
             arcLengths == ArcLengthsFrom(pts, 1, ArcLengthSegments(n), <<0>>)
             m          == Len(arcLengths)
             headings   == [i \in 1..n |-> Heading(pts[i], pts[NextIndex(i, n)])]
             curvatures == [i \in 1..n |->
                              Curvature(headings[NextIndex(i, n)],
                                        headings[PrevIndex(i, n)],
                                        arcLengths[NextIndex(i, m)]
                                          - arcLengths[PrevIndex(i, m)],
                                        u)]
         IN  [threw       |-> FALSE,
              points      |-> pts,
              arcLengths  |-> arcLengths,
              totalLength |-> arcLengths[m],
              headings    |-> headings,
              curvatures  |-> curvatures]

\* lenSq > 1e-6, for a squared length in grid steps
LenSqAboveGuard_Exact(lenSq, u) == lenSq > 0

LenSqAboveGuard(lenSq, u) == lenSq * u.num * u.num * 1000000 > u.den * u.den

\* the state of the scan before its first segment: minDist = +Infinity
NoBest == [none |-> TRUE, s |-> Frac(0, 1), distanceSq |-> Frac(0, 1),
           d |-> Frac(0, 1)]

\* one iteration of the scan of nearestArcLength, for segment i.
\* t = tNum / tDen; (ex, ey) is tDen * (pt - closest); the normal is
\* (-dy, dx) / Math.sqrt(lenSq), which is NaN when lenSq = 0, and so is d.
NearestStep(par, pt, u, i, best) ==
    LET n     == Len(par.points)
        p0    == par.points[i]
        p1    == par.points[NextIndex(i, n)]
        s0    == par.arcLengths[i]
        s1    == IF i < n THEN par.arcLengths[i + 1]
                          ELSE par.arcLengths[1] + par.totalLength
        dx    == p1.x - p0.x
        dy    == p1.y - p0.y
        lenSq == dx * dx + dy * dy
        dot   == (pt.x - p0.x) * dx + (pt.y - p0.y) * dy
        guard == LenSqAboveGuard(lenSq, u)
        tNum  == IF guard THEN Max2(0, Min2(lenSq, dot)) ELSE 0
        tDen  == IF guard THEN lenSq ELSE 1
        ex    == (pt.x - p0.x) * tDen - tNum * dx
        ey    == (pt.y - p0.y) * tDen - tNum * dy
        dist  == Frac(ex * ex + ey * ey, tDen * tDen)
    IN  IF best.none \/ FracLess(dist, best.distanceSq)
        THEN [none       |-> FALSE,
              s          |-> Frac(s0 * tDen + tNum * (s1 - s0), tDen),
              distanceSq |-> dist,
              d          |-> IF lenSq = 0 THEN NaN
                             ELSE Norm(Frac((ex * (0 - dy) + ey * dx) * Prec,
                                            tDen * Hypot(dx, dy)))]
        ELSE best

RECURSIVE NearestScan(_, _, _, _)
NearestScan(par, pt, u, k) ==
    IF k = 0 THEN NoBest
    ELSE NearestStep(par, pt, u, k, NearestScan(par, pt, u, k - 1))

\* distance is returned as its square
nearestArcLength(par, pt, u) ==
    LET best == NearestScan(par, pt, u, Len(par.points))
    IN  [s |-> best.s, distanceSq |-> best.distanceSq, d |-> best.d]

\* ((s % totalLength) + totalLength) % totalLength
WrapArcLength_SingleRem(s, totalLength) == JsRem(s, totalLength)

WrapArcLength(s, totalLength) ==
    JsRem(FracAdd(JsRem(s, totalLength), Frac(totalLength, 1)), totalLength)

\* the search loop of poseAtArcLength from index i on (indices from 1): the
\* first i with arcLengths[i] > sWrapped, or 0 when the loop ends without one
RECURSIVE FirstAbove(_, _, _)
FirstAbove(arcLengths, sWrapped, i) ==
    IF i > Len(arcLengths) THEN 0
    ELSE IF FracLess(sWrapped, Frac(arcLengths[i], 1)) THEN i
    ELSE FirstAbove(arcLengths, sWrapped, i + 1)

\* a + t * (b - a) for integers a, b and a fraction t
Lerp(a, b, t) ==
    IF IsNaN(t) THEN NaN
    ELSE Norm(Frac(a * t.den + t.num * (b - a), t.den))

\* pos is in grid steps, heading in fixed-point radians, curvature in
\* fixed-point radians per grid step
poseAtArcLength(par, s) ==
    LET n        == Len(par.points)
        sWrapped == WrapArcLength(s, par.totalLength)
        found    == FirstAbove(par.arcLengths, sWrapped, 1)
        \* idx of the code, which counts from 0
        idx0     == IF found = 0 THEN 0 ELSE (found - 1) - 1
        idx      == Max2(0, Min2(idx0, n - 2))
        s0       == par.arcLengths[idx + 1]
        s1       == par.arcLengths[idx + 2]
        p0       == par.points[idx + 1]
        p1       == par.points[idx + 2]
        t        == IF s1 > s0
                    THEN (IF IsNaN(sWrapped) THEN NaN
                          ELSE Norm(Frac(sWrapped.num - s0 * sWrapped.den,
                                         (s1 - s0) * sWrapped.den)))
                    ELSE Frac(0, 1)
    IN  [pos       |-> [x |-> Lerp(p0.x, p1.x, t), y |-> Lerp(p0.y, p1.y, t)],
         heading   |-> Lerp(par.headings[idx + 1], par.headings[idx + 2], t),
         curvature |-> Lerp(par.curvatures[idx + 1], par.curvatures[idx + 2], t)]

\* frenet.ts normalizeAngle; both loops end at once on NaN
RECURSIVE normalizeAngle(_)
normalizeAngle(a) ==
    IF IsNaN(a) THEN NaN
    ELSE IF a.num > PiFp * a.den THEN normalizeAngle(FracAdd(a, Frac(0 - 2 * PiFp, 1)))
    ELSE IF a.num < (0 - PiFp) * a.den THEN normalizeAngle(FracAdd(a, Frac(2 * PiFp, 1)))
    ELSE a

\* worldHeading is a fixed-point angle
\* near is what the first line of worldToFrenet gets from
\* nearestArcLength(params, [worldX, worldY])
worldToFrenet(par, near, worldHeading) ==
    LET centerlineHeading == poseAtArcLength(par, near.s).heading
        headingError      == FracAdd(Frac(worldHeading, 1), FracNeg(centerlineHeading))
    IN  [s            |-> near.s,
         d            |-> near.d,
         heading      |-> worldHeading,
         headingError |-> normalizeAngle(headingError)]

\* x + d * c for a position x and a lateral error d in grid steps and a
\* fixed-point cosine or sine c; the sum is rounded to fixed point
OffsetBy(x, d, c) ==
    IF IsNaN(x) \/ IsNaN(d) THEN NaN
    ELSE Norm(Frac(QuotFp(x.num * Prec, x.den) + QuotFp(d.num * c, d.den), Prec))

frenetToWorld(par, s, d, headingError) ==
    LET atS               == poseAtArcLength(par, s)
        centerlineHeading == atS.heading
    IN  IF IsNaN(centerlineHeading)
        THEN [x |-> NaN, y |-> NaN, heading |-> NaN]
        ELSE LET perpHeading == Floor(centerlineHeading) + PiFp \div 2
             IN  [x       |-> OffsetBy(atS.pos.x, d, Cos(perpHeading)),
                  y       |-> OffsetBy(atS.pos.y, d, Sin(perpHeading)),
                  heading |-> normalizeAngle(FracAdd(centerlineHeading, headingError))]

\* Math.abs(denom) < 1e-6, for a fraction denom
BelowRateGuard_Never(denom) == FALSE

BelowRateGuard(denom) == Abs(denom.num) <= (denom.den - 1) \div 1000000

\* s and d are in grid steps, headingError is a fixed-point angle.  The
\* quotient is kept as its operands: the rate is numer / denom, numer in
\* fixed point; it is NaN when denom is, and infinite when denom is 0.
arcLengthRate(par, s, d, headingError, speed) ==
    LET curvature == poseAtArcLength(par, s).curvature
        denom     == IF IsNaN(curvature) \/ IsNaN(d) THEN NaN
                     ELSE FracAdd(Frac(1, 1),
                                  Norm(Frac(curvature.num * d.num,
                                            curvature.den * Prec * d.den)))
    IN  IF ~IsNaN(denom) /\ BelowRateGuard(denom)
        THEN [zero |-> TRUE, numer |-> 0, denom |-> denom]
        ELSE [zero |-> FALSE, numer |-> speed * Cos(headingError), denom |-> denom]

(* The inputs of the centerline functions *)

\* one grid step is 0.8, or 0.0007 (the squared length of a step and of the
\* diagonal of a grid cell are then below 1e-6, that of two steps is above)
Units == {Frac(4, 5), Frac(7, 10000)}

CenterPoints == {Pt(px, py) : px \in 0..CenterMax, py \in 0..CenterMax}

PointCounts == 0..4

Centerlines == UNION {SeqsOfLen(CenterPoints, n) : n \in PointCounts}

\* query points lie on the grid of the centerline and one step outside it
QueryCoords == 0..(CenterMax + 1)

InitCenterline ==
    /\ cpc = "input"
    /\ unit \in Units
    /\ points \in Centerlines
    /\ params = NoParams
    /\ query = Pt(0, 0)
    /\ nearest = NoNearest
    /\ frenet = NoFrenet
    /\ FrenetIdle
    /\ StoreConstructed
    /\ QuadIdle
    /\ ZoneIdle
    /\ LimitsIdle
    /\ DemoConstructed
    /\ CoordIdle
    /\ NoRecalls

ParameterizeCenterline ==
    /\ cpc = "input"
    /\ params' = parameterizeCenterline(points, unit)
    /\ cpc' = "parameterized"
    /\ UNCHANGED <<unit, points, query, nearest, frenet>>
    /\ UNCHANGED <<frVars, notClVars>>

WorldToFrenet(worldX, worldY, worldHeading) ==
    /\ cpc = "parameterized"
    /\ ~params.threw
    /\ query' = Pt(worldX, worldY)
    /\ \E near \in {nearestArcLength(params, Pt(worldX, worldY), unit)} :
          /\ nearest' = near
          /\ frenet' = worldToFrenet(params, near, worldHeading)
    /\ cpc' = "queried"
    /\ UNCHANGED <<unit, points, params>>
    /\ UNCHANGED <<frVars, notClVars>>

\* the vehicle of these queries heads along +x
NextCenterline ==
    \/ ParameterizeCenterline
    \/ \E worldX \in QueryCoords, worldY \in QueryCoords : WorldToFrenet(worldX, worldY, 0)

SpecCenterline == InitCenterline /\ [][NextCenterline]_vars

(* The Frenet conversions on loops of two and three points *)

FrenetCenterlines == SeqsOfLen(CenterPoints, 2) \cup SeqsOfLen(CenterPoints, 3)

\* vehicle headings: along +x, 2 radians, and -4 radians
WorldHeadings == {0, 2 * Prec, 0 - 4 * Prec}

\* arc lengths handed to poseAtArcLength: the half grid steps from -MaxArc
\* to MaxArc grid steps
ArcArgs == {Frac(k * Prec, 2) : k \in (0 - 2 * MaxArc)..(2 * MaxArc)}

\* the lateral offset at which 1 + curvature * d vanishes at vertex i
SingularOffset(par, i) ==
    IF par.curvatures[i] > 0 THEN Frac(0 - Prec, par.curvatures[i])
    ELSE Frac(Prec, 0 - par.curvatures[i])

\* arguments of arcLengthRate: a few arc lengths and offsets on and off the
\* centerline, and every vertex with the offset that is singular there
RateArgs(par) ==
    LET turns == {<<0, 2>>, <<PiFp \div 2, 2>>, <<Prec, 0 - 1>>}
        plain == {[s |-> Frac(k * Prec, 2), d |-> d, headingError |-> c[1], speed |-> c[2]] :
                    k \in 0..3, d \in {Frac(0, 1), Frac(0 - 1, 2), Frac(2, 1)}, c \in turns}
        sing  == {[s |-> Frac(par.arcLengths[i], 1), d |-> SingularOffset(par, i),
                   headingError |-> c[1], speed |-> c[2]] :
                    i \in {j \in 1..Len(par.points) : par.curvatures[j] # 0}, c \in turns}
    IN  plain \cup sing

InitFrenet ==
    /\ cpc = "input"
    /\ unit \in Units
    /\ points \in FrenetCenterlines
    /\ params = NoParams
    /\ query = Pt(0, 0)
    /\ nearest = NoNearest
    /\ frenet = NoFrenet
    /\ FrenetIdle
    /\ StoreConstructed
    /\ QuadIdle
    /\ ZoneIdle
    /\ LimitsIdle
    /\ DemoConstructed
    /\ CoordIdle
    /\ NoRecalls

\* the FrenetPose of the last worldToFrenet, handed back to frenetToWorld
FrenetToWorld ==
    /\ cpc = "queried"
    /\ world' = frenetToWorld(params, frenet.s, frenet.d, frenet.headingError)
    /\ cpc' = "returned"
    /\ UNCHANGED <<unit, points, params, query, nearest, frenet>>
    /\ UNCHANGED <<poseArg, pose, rateArgs, rate>>
    /\ UNCHANGED notClVars

PoseAtArcLength(s) ==
    /\ cpc = "parameterized"
    /\ ~params.threw
    /\ poseArg' = s
    /\ pose' = poseAtArcLength(params, s)
    /\ cpc' = "posed"
    /\ UNCHANGED <<unit, points, params, query, nearest, frenet>>
    /\ UNCHANGED <<world, rateArgs, rate>>
    /\ UNCHANGED notClVars

ArcLengthRate(a) ==
    /\ cpc = "parameterized"
    /\ ~params.threw
    /\ rateArgs' = a
    /\ rate' = arcLengthRate(params, a.s, a.d, a.headingError, a.speed)
    /\ cpc' = "rated"
    /\ UNCHANGED <<unit, points, params, query, nearest, frenet>>
    /\ UNCHANGED <<world, poseArg, pose>>
    /\ UNCHANGED notClVars

NextFrenet ==
    \/ ParameterizeCenterline
    \/ \E worldX \in QueryCoords, worldY \in QueryCoords, worldHeading \in WorldHeadings :
          WorldToFrenet(worldX, worldY, worldHeading)
    \/ FrenetToWorld
    \/ \E s \in ArcArgs : PoseAtArcLength(s)
    \/ \E a \in RateArgs(params) : ArcLengthRate(a)

SpecFrenet == InitFrenet /\ [][NextFrenet]_vars

----------------------------------------------------------------------------
(* Zone queries (zone-query.ts) *)

\* A coordinate of a zone vertex or of a query point is an integer number of
\* half grid steps.  A distance is kept as its square, an exact fraction:
\* Math.sqrt is increasing, so distances compare as their squares do.

ZoneMaxX == 1

\* n / d for integers n and d # 0, with a positive denominator
Quotient(n, d) == IF d < 0 THEN Frac(0 - n, 0 - d) ELSE Frac(n, d)

\* Math.max(min, Math.min(max, v)) on fractions
clamp(v, lo, hi) ==
    LET m == IF FracLess(v, hi) THEN v ELSE hi
    IN  IF FracLess(lo, m) THEN m ELSE lo

segmentDistanceSq(pt, a, b) ==
    LET ab      == Pt(b.x - a.x, b.y - a.y)
        ap      == Pt(pt.x - a.x, pt.y - a.y)
        abLenSq == ab.x * ab.x + ab.y * ab.y
    IN  IF abLenSq = 0
        THEN Frac(ap.x * ap.x + ap.y * ap.y, 1)
        ELSE LET t  == clamp(Frac(ap.x * ab.x + ap.y * ab.y, abLenSq), Frac(0, 1), Frac(1, 1))
                 \* pt - closest, over the denominator of t
                 dx == ap.x * t.den - ab.x * t.num
                 dy == ap.y * t.den - ab.y * t.num
             IN  Norm(Frac(dx * dx + dy * dy, t.den * t.den))

\* the loop of polygonDistance from edge i on; minSq is a one-element
\* sequence, or empty for Number.POSITIVE_INFINITY
RECURSIVE MinSqFrom(_, _, _, _)
MinSqFrom(pt, poly, i, minSq) ==
    IF i > Len(poly) THEN minSq
    ELSE LET sq == segmentDistanceSq(pt, poly[i], poly[(i % Len(poly)) + 1])
         IN  MinSqFrom(pt, poly, i + 1,
                       IF minSq = <<>> \/ FracLess(sq, minSq[1]) THEN <<sq>> ELSE minSq)

\* the square of polygonDistance, for a polygon of at least one vertex
polygonDistance(pt, poly) == MinSqFrom(pt, poly, 1, <<>>)[1]

\* yi > pt[1] !== yj > pt[1] && pt[0] < ((xj - xi) * (pt[1] - yi)) / (yj - yi) + xi
RayIntersects_Strict(pt, pi, pj) ==
    /\ (pi.y > pt.y /\ pj.y < pt.y) \/ (pi.y < pt.y /\ pj.y > pt.y)
    /\ FracLess(Frac(pt.x, 1),
                FracAdd(Quotient((pj.x - pi.x) * (pt.y - pi.y), pj.y - pi.y), Frac(pi.x, 1)))

RayIntersects(pt, pi, pj) ==
    /\ (pi.y > pt.y) # (pj.y > pt.y)
    /\ FracLess(Frac(pt.x, 1),
                FracAdd(Quotient((pj.x - pi.x) * (pt.y - pi.y), pj.y - pi.y), Frac(pi.x, 1)))

\* the loop of pointInPolygon from vertex i on (j is the vertex before i)
RECURSIVE InsideFrom(_, _, _, _)
InsideFrom(pt, poly, i, inside) ==
    IF i > Len(poly) THEN inside
    ELSE LET j == IF i = 1 THEN Len(poly) ELSE i - 1
         IN  InsideFrom(pt, poly, i + 1,
                        IF RayIntersects(pt, poly[i], poly[j]) THEN ~inside ELSE inside)

pointInPolygon(pt, poly) == InsideFrom(pt, poly, 1, FALSE)

\* distance < nearest.distance, keeping the first zone at the least distance
NearerZone_Last(distance, best) == ~FracLess(best.distanceSq, distance)

NearerZone(distance, best) == FracLess(distance, best.distanceSq)

\* the body of the loop of queryZonesAtPoint for one zone
QueryZone(pt, zone, acc) ==
    IF Len(zone.poly) < 3 THEN acc
    ELSE LET inside   == pointInPolygon(pt, zone.poly)
             distance == IF inside THEN Frac(0, 1) ELSE polygonDistance(pt, zone.poly)
         IN  [containing |-> IF inside THEN Append(acc.containing, zone)
                                       ELSE acc.containing,
              nearest    |-> IF acc.nearest = Null \/ NearerZone(distance, acc.nearest[1])
                             THEN Some([zone |-> zone, distanceSq |-> distance])
                             ELSE acc.nearest]

RECURSIVE QueryZonesFrom(_, _, _, _)
QueryZonesFrom(pt, zs, i, acc) ==
    IF i > Len(zs) THEN acc
    ELSE QueryZonesFrom(pt, zs, i + 1, QueryZone(pt, zs[i], acc))

\* nearest.distance > options.maxDistance, for a squared distance and a
\* maxDistance in half grid steps
FartherThan_OrEqual(distanceSq, maxDistance) ==
    maxDistance <= 0 \/ ~FracLess(distanceSq, Frac(maxDistance * maxDistance, 1))

FartherThan(distanceSq, maxDistance) ==
    maxDistance < 0 \/ FracLess(Frac(maxDistance * maxDistance, 1), distanceSq)

queryZonesAtPoint(pt, zs, options) ==
    LET found == QueryZonesFrom(pt, zs, 1, [containing |-> <<>>, nearest |-> Null])
    IN  IF /\ options.maxDistance # Undefined
           /\ found.nearest # Null
           /\ FartherThan(found.nearest[1].distanceSq, options.maxDistance[1])
        THEN [found EXCEPT !.nearest = Null]
        ELSE found

(* The inputs of the zone query *)

\* zone vertices lie on the grid steps
ZoneGrid == {Pt(2 * x, 2 * y) : x \in 0..ZoneMaxX, y \in 0..2}

Before(p, q) == p.x < q.x \/ (p.x = q.x /\ p.y < q.y)

\* triangles, degenerate ones included, and quadrilaterals of four distinct
\* vertices.  A polygon is listed from its least vertex, and a quadrilateral
\* in one direction only: the other listings are the same polygons.
ZonePolys ==
    {q \in SeqsOfLen(ZoneGrid, 3) : \A i \in 2..3 : ~Before(q[i], q[1])}
      \cup {q \in SeqsOfLen(ZoneGrid, 4) :
              /\ \A i \in 2..4 : Before(q[1], q[i])
              /\ q[2] # q[3] /\ q[3] # q[4]
              /\ Before(q[2], q[4])}

\* a zone of two vertices, which every function skips
ShortZone == [id |-> "short", type |-> "jump", poly |-> <<Pt(0, 0), Pt(2, 0)>>]

\* the rectangle over the left column of the grid
WallZone == [id |-> "wall", type |-> "wallride",
             poly |-> <<Pt(0, 0), Pt(2, 0), Pt(2, 4), Pt(0, 4)>>]

Zone(poly) == [id |-> "a", type |-> "jump", poly |-> poly]

ZoneLists ==
    {<<>>, <<ShortZone>>}
      \cup {<<ShortZone, Zone(p), WallZone>> : p \in ZonePolys}
      \cup {<<WallZone, Zone(p), Zone(p)>> : p \in {q \in ZonePolys : Len(q) = 3}}

\* query points on and between the grid steps, and to the left of and
\* below the grid
ZoneQueryPoints == {Pt(x, y) : x \in (0 - 1)..(2 * ZoneMaxX), y \in (0 - 1)..4}

\* no maxDistance, or a maxDistance of 0 or of half a grid step
ZoneOptions == {[maxDistance |-> m] : m \in {Undefined, Some(0), Some(1)}}

InitZones ==
    /\ zpc = "input"
    /\ zones \in ZoneLists
    /\ zonePt \in ZoneQueryPoints
    /\ zoneOpts = [maxDistance |-> Undefined]
    /\ zoneResult = NoZoneResult
    /\ QuadIdle
    /\ StoreConstructed
    /\ CenterlineIdle
    /\ LimitsIdle
    /\ DemoConstructed
    /\ CoordIdle
    /\ NoRecalls

QueryZonesAtPoint(options) ==
    /\ zpc = "input"
    /\ zoneOpts' = options
    /\ zoneResult' = queryZonesAtPoint(zonePt, zones, options)
    /\ zpc' = "queried"
    /\ UNCHANGED <<zones, zonePt>>
    /\ UNCHANGED notZoneVars

NextZones == \E options \in ZoneOptions : QueryZonesAtPoint(options)

SpecZones == InitZones /\ [][NextZones]_vars

----------------------------------------------------------------------------
(* Track limits (track-limits.ts) *)

\* The zones keep their coordinates in half grid steps; a sample position of
\* the centerline, a pair of fractions in grid steps, is doubled before it
\* is measured against them.  A signed distance is kept as its sign and its
\* square: [kind |-> "distance", neg, sq] stands for -sqrt(sq) half grid
\* steps when neg and for sqrt(sq) otherwise; [kind |-> "infinity"] is
\* Infinity and [kind |-> "default"] the lateral default 0.5, with its sign.

MaxSamples == 3

Infinity == [kind |-> "infinity", neg |-> FALSE, sq |-> [num |-> 0, den |-> 1]]

Distance(neg, sq) == [kind |-> "distance", neg |-> neg /\ sq.num > 0, sq |-> sq]

\* const defaultLateral = 0.5
DefaultLateral == [kind |-> "default", neg |-> FALSE, sq |-> [num |-> 0, den |-> 1]]

\* unary minus
Negate(a) == IF a.kind = "distance" /\ a.sq.num = 0 THEN a ELSE [a EXCEPT !.neg = ~a.neg]

\* a < b for two signed distances, either of which may be Infinity
SignedLess(a, b) ==
    IF a.kind = "infinity" THEN FALSE
    ELSE IF b.kind = "infinity" THEN TRUE
    ELSE IF a.neg /\ b.neg THEN FracLess(b.sq, a.sq)
    ELSE IF a.neg THEN TRUE
    ELSE IF b.neg THEN FALSE
    ELSE FracLess(a.sq, b.sq)

\* the least common denominator of the coordinates of pt
CommonDen(pt) == (pt.x.den \div Gcd(pt.x.den, pt.y.den)) * pt.y.den

\* lenSq < 1e-10, for the squared length of a segment in half grid steps of
\* a centerline with grid step u
BelowSegmentGuard(lenSq, u) ==
    lenSq * u.num * u.num <= ((4 * u.den * u.den - 1) \div 100000) \div 100000

\* the square of pointToSegmentDistance, for a point pt with fractions as
\* coordinates
pointToSegmentDistance(pt, a, b, u) ==
    LET q     == CommonDen(pt)
        \* pt - a, over the denominator q
        apx   == pt.x.num * (q \div pt.x.den) - a.x * q
        apy   == pt.y.num * (q \div pt.y.den) - a.y * q
        dx    == b.x - a.x
        dy    == b.y - a.y
        lenSq == dx * dx + dy * dy
    IN  IF BelowSegmentGuard(lenSq, u)
        THEN Norm(Frac(apx * apx + apy * apy, q * q))
        ELSE LET t  == clamp(Norm(Frac(apx * dx + apy * dy, lenSq * q)), Frac(0, 1), Frac(1, 1))
                 \* pt - closest, over the denominator q * t.den
                 ex == apx * t.den - dx * t.num * q
                 ey == apy * t.den - dy * t.num * q
             IN  Norm(Frac(ex * ex + ey * ey, (q * t.den) * (q * t.den)))

\* the loop of pointToPolygonDistance from edge i on; minDist is a squared
\* distance in a one-element sequence, or empty for Infinity
RECURSIVE MinDistFrom(_, _, _, _, _)
MinDistFrom(pt, poly, u, i, minDist) ==
    IF i > Len(poly) THEN minDist
    ELSE LET dist == pointToSegmentDistance(pt, poly[i], poly[(i % Len(poly)) + 1], u)
         IN  MinDistFrom(pt, poly, u, i + 1,
                         IF minDist = <<>> \/ FracLess(dist, minDist[1]) THEN <<dist>> ELSE minDist)

\* the ray test of the pointInPolygon of track-limits.ts, for a point with
\* fractions as coordinates
LimitsRayIntersects(pt, pi, pj) ==
    /\ FracLess(pt.y, Frac(pi.y, 1)) # FracLess(pt.y, Frac(pj.y, 1))
    /\ FracLess(pt.x,
                FracAdd(Quotient((pj.x - pi.x) * (pt.y.num - pi.y * pt.y.den),
                                 (pj.y - pi.y) * pt.y.den),
                        Frac(pi.x, 1)))

RECURSIVE LimitsInsideFrom(_, _, _, _)
LimitsInsideFrom(pt, poly, i, inside) ==
    IF i > Len(poly) THEN inside
    ELSE LET j == IF i = 1 THEN Len(poly) ELSE i - 1
         IN  LimitsInsideFrom(pt, poly, i + 1,
                              IF LimitsRayIntersects(pt, poly[i], poly[j]) THEN ~inside
                                                                           ELSE inside)

\* the pointInPolygon of track-limits.ts
LimitsPointInPolygon(pt, poly) == LimitsInsideFrom(pt, poly, 1, FALSE)

pointToPolygonDistance(pt, poly, u) ==
    IF Len(poly) < 3 THEN Infinity
    ELSE LET minDist == MinDistFrom(pt, poly, u, 1, <<>>)[1]
             inside  == LimitsPointInPolygon(pt, poly)
         IN  Distance(inside, minDist)

\* the loop over the zones from zone i on; acc is [left, right], the
\* minDistLeft and minDistRight of the code
RECURSIVE MinOverZonesFrom(_, _, _, _, _)
MinOverZonesFrom(pt, zs, u, i, acc) ==
    IF i > Len(zs) THEN acc
    ELSE LET polyDist == pointToPolygonDistance(pt, zs[i].poly, u)
         IN  MinOverZonesFrom(pt, zs, u, i + 1,
                [left  |-> IF SignedLess(polyDist, acc.left) THEN polyDist ELSE acc.left,
                 right |-> IF SignedLess(polyDist, acc.right) THEN polyDist ELSE acc.right])

\* a position in grid steps, in half grid steps
HalfSteps(pos) == [x |-> Norm(Frac(2 * pos.x.num, pos.x.den)),
                   y |-> Norm(Frac(2 * pos.y.num, pos.y.den))]

\* the body of the loop of extractTrackLimits for sample i, counted from 0
SampleBounds(par, zs, n, u, i) ==
    LET ds      == Frac(par.totalLength, Max2(1, n - 1))
        sample  == Norm(Frac(i * ds.num, ds.den))
        pos     == poseAtArcLength(par, sample).pos
        minDist == MinOverZonesFrom(HalfSteps(pos), zs, u, 1,
                                    [left |-> Infinity, right |-> Infinity])
    IN  [left  |-> IF SignedLess(minDist.left, Infinity) THEN Negate(minDist.left)
                                                        ELSE Negate(DefaultLateral),
         right |-> IF SignedLess(minDist.right, Infinity) THEN minDist.right
                                                         ELSE DefaultLateral]

extractTrackLimits(par, zs, n, u) ==
    LET bounds == [i \in 1..n |-> SampleBounds(par, zs, n, u, i - 1)]
    IN  [leftBounds  |-> [i \in 1..n |-> bounds[i].left],
         rightBounds |-> [i \in 1..n |-> bounds[i].right],
         samples     |-> n,
         totalLength |-> par.totalLength]

(* The inputs of extractTrackLimits *)

\* centerlines of two or three points whose segments run along the grid, and
\* one whose points are all the same
LimitCenterlines ==
    {<<Pt(0, 0), Pt(0, 0)>>}
      \cup {c \in SeqsOfLen(CenterPoints, 2) \cup SeqsOfLen(CenterPoints, 3) :
              \A i \in 1..(Len(c) - 1) :
                 Abs(c[i + 1].x - c[i].x) + Abs(c[i + 1].y - c[i].y) = 1}

\* a zone around the whole grid and a zone beside it
BigZone == [id |-> "big", type |-> "jump",
            poly |-> <<Pt(0 - 2, 0 - 2), Pt(6, 0 - 2), Pt(6, 6), Pt(0 - 2, 6)>>]

SideZone == [id |-> "side", type |-> "wallride",
             poly |-> <<Pt(3, 0 - 1), Pt(5, 0 - 1), Pt(5, 1)>>]

LimitZoneLists ==
    {<<>>, <<ShortZone>>, <<BigZone>>, <<SideZone>>, <<WallZone>>,
     <<BigZone, SideZone>>, <<SideZone, BigZone>>, <<ShortZone, SideZone>>,
     <<WallZone, BigZone>>}

InitLimits ==
    /\ cpc = "input"
    /\ unit \in Units
    /\ points \in LimitCenterlines
    /\ params = NoParams
    /\ query = Pt(0, 0)
    /\ nearest = NoNearest
    /\ frenet = NoFrenet
    /\ FrenetIdle
    /\ zpc = "idle"
    /\ zones \in LimitZoneLists
    /\ zonePt = Pt(0, 0)
    /\ zoneOpts = [maxDistance |-> Undefined]
    /\ zoneResult = NoZoneResult
    /\ LimitsIdle
    /\ StoreConstructed
    /\ QuadIdle
    /\ DemoConstructed
    /\ CoordIdle
    /\ NoRecalls

ExtractTrackLimits(n) ==
    /\ cpc = "parameterized"
    /\ ~params.threw
    /\ numSamples' = n
    /\ limits' = extractTrackLimits(params, zones, n, unit)
    /\ cpc' = "extracted"
    /\ UNCHANGED <<unit, points, params, query, nearest, frenet>>
    /\ UNCHANGED <<frVars, zoneVars, quadVars, storeVars, sessionVars, demoVars, coordVars, callVars>>

NextLimits ==
    \/ ParameterizeCenterline
    \/ \E n \in 0..MaxSamples : ExtractTrackLimits(n)

SpecLimits == InitLimits /\ [][NextLimits]_vars

----------------------------------------------------------------------------
(* The centerline demo (centerline-demo.ts) and the store's centerline *)

\* The vehicle state and the steering angle are kept in fixed point: the
\* integer n stands for n / Prec (grid steps, radians, seconds).

MaxFrames == 2

SteerSteps == 1

\* speed = signal(2)
DemoSpeed == 2

\* const step = 0.05 of the keydown handler, and its limit 0.5
SteerStep == Prec \div 20

SteerLimit == Prec \div 2

\* !centerline || centerline.length < 2
TooShort_Empty(line) == Len(line) < 1

TooShort(line) == Len(line) < 2

\* the computed signal centerlineParams: Null, or the result of
\* parameterizeCenterline (which carries threw when the call throws)
centerlineParams ==
    IF TooShort(centerline) THEN Null
    ELSE Some(parameterizeCenterline(centerline, unit))

\* the computed signal trackLimits
trackLimits ==
    IF centerlineParams = Null THEN Null
    ELSE Some(extractTrackLimits(centerlineParams[1], zones, 100, unit))

\* the geometry calls made by reading centerlineParams
ParamsCalls == IF TooShort(centerline) THEN <<>> ELSE <<"parameterizeCenterline">>

\* a fixed-point amount per second, over the time dt
Over(ratePerSecond, dt) == QuotFp(ratePerSecond * dt.num, dt.den)

\* updateVehicle from the pose it reads at the new arc length on: the new
\* vehicleState, for the rate r that arcLengthRate returned
VehicleAt(par, dt, r) ==
    LET v        == DemoSpeed
        sRate    == IF r.zero THEN 0 ELSE QuotFp(r.numer * r.denom.den, r.denom.num)
        newS     == vehicleState.s + Over(sRate, dt)
        clampedS == Max2(0, Min2(newS, par.totalLength))
        newD     == vehicleState.d + Over(v * Sin(steeringAngle), dt)
    IN  CHOOSE moved \in
            {[s   |-> clampedS,
              d   |-> newD,
              psi |-> Floor(atS.heading)
                        + QuotFp(atS.curvature.num * Over(sRate, dt),
                                 atS.curvature.den * Prec),
              v   |-> v] : atS \in {poseAtArcLength(par, Frac(clampedS, 1))}} : TRUE

\* updateVehicle after its guard, for the params it read and the frame time
\* dt: the new vehicleState
MovedVehicle(par, dt) ==
    CHOOSE moved \in
        {VehicleAt(par, dt, r) :
            r \in {arcLengthRate(par, Frac(vehicleState.s, 1),
                                 Norm(Frac(vehicleState.d, Prec)),
                                 steeringAngle, DemoSpeed)}} : TRUE

\* the geometry calls of render for the params it read
RenderCalls(par) ==
    [i \in 1..(Len(par.arcLengths) + 1) |-> "poseAtArcLength"]

\* the callback animate of requestAnimationFrame: updateVehicle and render
\* while the simulation runs.  dt is the time since the frame before; read
\* is what the handlers get from the signal centerlineParams, Null or the
\* params (which carry threw when reading the signal throws).
AnimationFrame(dt) ==
    /\ frames < MaxFrames
    /\ frames' = frames + 1
    /\ IF ~isRunning
       THEN /\ calls' = <<>>
            /\ UNCHANGED <<vehicleState, lastFrameTime>>
       ELSE /\ lastFrameTime' = 1
            /\ \E read \in {centerlineParams} :
                  IF read = Null
                  THEN /\ UNCHANGED vehicleState
                       /\ calls' = <<"console.warn">>
                  ELSE IF read[1].threw
                  THEN /\ UNCHANGED vehicleState
                       /\ calls' = ParamsCalls
                  ELSE /\ vehicleState' =
                             MovedVehicle(read[1],
                                          IF lastFrameTime = 0 THEN Frac(16, 1000) ELSE dt)
                       /\ calls' = ParamsCalls \o <<"arcLengthRate", "poseAtArcLength">>
                                     \o RenderCalls(read[1])
    /\ UNCHANGED <<centerline, steeringAngle, isRunning>>
    /\ UNCHANGED notDemoVars

\* a read of the signal trackLimits
ReadTrackLimits ==
    /\ \E read \in {centerlineParams} :
          calls' = IF read = Null THEN <<>>
                   ELSE IF read[1].threw THEN ParamsCalls
                   ELSE ParamsCalls \o <<"extractTrackLimits">>
    /\ UNCHANGED <<centerline, vehicleState, steeringAngle, isRunning, lastFrameTime, frames>>
    /\ UNCHANGED notDemoVars

\* TrackStore.onCenterlineChange
OnCenterlineChange(line) ==
    /\ centerline' = line
    /\ calls' = <<>>
    /\ UNCHANGED <<vehicleState, steeringAngle, isRunning, lastFrameTime, frames>>
    /\ UNCHANGED notDemoVars

\* the keydown handler; the model follows the steering up to SteerSteps
\* steps to either side
KeyDown(key) ==
    /\ steeringAngle' =
          IF key = "ArrowLeft" THEN Max2(0 - SteerLimit, steeringAngle - SteerStep)
          ELSE IF key = "ArrowRight" THEN Min2(SteerLimit, steeringAngle + SteerStep)
          ELSE steeringAngle
    /\ Abs(steeringAngle') <= SteerSteps * SteerStep
    /\ calls' = <<>>
    /\ UNCHANGED <<centerline, vehicleState, isRunning, lastFrameTime, frames>>
    /\ UNCHANGED notDemoVars

ToggleSimulation ==
    /\ isRunning' = ~isRunning
    /\ calls' = <<>>
    /\ UNCHANGED <<centerline, vehicleState, steeringAngle, lastFrameTime, frames>>
    /\ UNCHANGED notDemoVars

ResetVehicle ==
    /\ vehicleState' = [s |-> 0, d |-> 0, psi |-> 0, v |-> 0]
    /\ steeringAngle' = 0
    /\ lastFrameTime' = 0
    /\ calls' = <<>>
    /\ UNCHANGED <<centerline, isRunning, frames>>
    /\ UNCHANGED notDemoVars

(* The inputs of the demo *)

\* the centerlines the editor hands over while a line is drawn: no point,
\* one point, two points
DemoLines ==
    {<<>>, <<Pt(0, 0)>>, <<Pt(0, 0), Pt(1, 0)>>, <<Pt(1, 1), Pt(0, 0)>>, <<Pt(0, 1), Pt(0, 1)>>}

\* the time between two frames: a quarter of a second
FrameTimes == {Frac(1, 4)}

InitDemo ==
    /\ DemoConstructed
    /\ CoordIdle
    /\ NoRecalls
    /\ StoreConstructed
    /\ QuadIdle
    /\ cpc = "idle"
    /\ unit = Frac(4, 5)
    /\ points = <<>>
    /\ params = NoParams
    /\ query = Pt(0, 0)
    /\ nearest = NoNearest
    /\ frenet = NoFrenet
    /\ FrenetIdle
    /\ zpc = "idle"
    /\ zones = <<WallZone>>
    /\ zonePt = Pt(0, 0)
    /\ zoneOpts = [maxDistance |-> Undefined]
    /\ zoneResult = NoZoneResult
    /\ LimitsIdle

NextDemo ==
    \/ \E line \in DemoLines : OnCenterlineChange(line)
    \/ ResetAll
    \/ \E dt \in FrameTimes : AnimationFrame(dt)
    \/ ReadTrackLimits
    \/ \E key \in {"ArrowLeft", "ArrowRight", "a"} : KeyDown(key)
    \/ ToggleSimulation
    \/ ResetVehicle

SpecDemo == InitDemo /\ [][NextDemo]_vars

----------------------------------------------------------------------------
(* Coordinate conversions (coord-helpers.ts) *)

\* The conversions multiply and divide doubles, and every product and
\* quotient is rounded.  The model keeps that rounding with a shorter
\* significand: a number is [neg, man, exp] and stands for man * 2^exp
\* (negated when neg), man = 0 for zero and otherwise a significand of
\* exactly MantBits bits; products and quotients round to the nearest such
\* number, ties to the even significand, as IEEE 754 does with 53 bits.  The
\* exponent is not bounded: the sizes and points of the model are far from
\* the overflow and underflow of doubles.

MantBits == 8

MaxConversions == 2

RECURSIVE Pow2(_)
Pow2(k) == IF k <= 0 THEN 1 ELSE 2 * Pow2(k - 1)

\* the number of bits of the positive integer n
RECURSIVE BitLen(_)
BitLen(n) == IF n = 0 THEN 0 ELSE 1 + BitLen(n \div 2)

FloatZero == [neg |-> FALSE, man |-> 0, exp |-> 0]

\* a division by zero gives no finite number
NotFinite == [neg |-> FALSE, man |-> 0, exp |-> 1]

\* the float nearest to n * 2^e for an integer n > 0; sticky says that the
\* exact value lies strictly between n * 2^e and (n + 1) * 2^e
RoundFloat(neg, n, e, sticky) ==
    LET k == BitLen(n) - MantBits
    IN  IF k <= 0
        THEN [neg |-> neg, man |-> n * Pow2(0 - k), exp |-> e + k]
        ELSE LET f    == n \div Pow2(k)
                 r    == n % Pow2(k)
                 half == Pow2(k - 1)
                 up   == r > half \/ (r = half /\ (sticky \/ f % 2 = 1))
                 g    == IF up THEN f + 1 ELSE f
             IN  IF g = Pow2(MantBits)
                 THEN [neg |-> neg, man |-> Pow2(MantBits - 1), exp |-> e + k + 1]
                 ELSE [neg |-> neg, man |-> g, exp |-> e + k]

\* the double a * b
FloatMul(a, b) ==
    IF a = NotFinite \/ b = NotFinite THEN NotFinite
    ELSE IF a.man = 0 \/ b.man = 0 THEN FloatZero
    ELSE RoundFloat(a.neg # b.neg, a.man * b.man, a.exp + b.exp, FALSE)

\* the double a / b
FloatDiv(a, b) ==
    IF a = NotFinite \/ b = NotFinite \/ b.man = 0 THEN NotFinite
    ELSE IF a.man = 0 THEN FloatZero
    ELSE LET n == a.man * Pow2(MantBits + 2)
         IN  RoundFloat(a.neg # b.neg, n \div b.man,
                        a.exp - b.exp - (MantBits + 2), n % b.man # 0)

\* return { x: p[0] * px.w, y: p[1] * px.h }
normToPxPoint_Swapped(p, px) == [x |-> FloatMul(p.x, px.h), y |-> FloatMul(p.y, px.w)]

normToPxPoint(p, px) == [x |-> FloatMul(p.x, px.w), y |-> FloatMul(p.y, px.h)]

\* return [pt.x / px.w, pt.y / px.h]
pxToNormPoint(pt, px) == [x |-> FloatDiv(pt.x, px.w), y |-> FloatDiv(pt.y, px.h)]

\* return [p[0] * meters.w, p[1] * meters.h]
normToMeters(p, meters) == [x |-> FloatMul(p.x, meters.w), y |-> FloatMul(p.y, meters.h)]

\* return [pMeters[0] / meters.w, pMeters[1] / meters.h]
metersToNorm(pMeters, meters) ==
    [x |-> FloatDiv(pMeters.x, meters.w), y |-> FloatDiv(pMeters.y, meters.h)]

pxToMeters(pt, px, meters) == normToMeters(pxToNormPoint(pt, px), meters)

metersToPx(pMeters, px, meters) == normToPxPoint(metersToNorm(pMeters, meters), px)

(* The inputs of the conversions *)

\* the double of the integer n times 2^e
Float(n, e) ==
    IF n = 0 THEN FloatZero
    ELSE RoundFloat(n < 0, Abs(n), e, FALSE)

\* coordinates: 0, 1, 37, 100 and 255 sixteenths and units, and two
\* negative ones
CoordValues ==
    {Float(n, e) : n \in {0, 1, 37, 100, 255}, e \in {0 - 4, 0}}
       \cup {Float(0 - 3, 0), Float(0 - 37, 0 - 4)}

CoordPoints == {[x |-> cx, y |-> cy] : cx \in CoordValues, cy \in CoordValues}

\* raster sizes in pixels and track sizes in meters, none of them square
PxSizes == {[w |-> Float(640, 0), h |-> Float(480, 0)],
            [w |-> Float(49, 0), h |-> Float(100, 0)]}

MeterSizes == {[w |-> Float(3, 0), h |-> Float(7, 0)],
               [w |-> Float(10, 0), h |-> Float(5, 0 - 1)]}

Frames == {"px", "norm", "meters"}

InitCoord ==
    /\ \E px \in PxSizes, meters \in MeterSizes, frame \in Frames, start \in CoordPoints :
          coord = [px |-> px, meters |-> meters, frame |-> frame, start |-> start,
                   applied |-> <<>>, value |-> start, at |-> frame]
    /\ QuadIdle
    /\ StoreConstructed
    /\ CenterlineIdle
    /\ ZoneIdle
    /\ LimitsIdle
    /\ DemoConstructed
    /\ NoRecalls

\* the conversions do not touch anything but the point they return
notCoordVars == <<quadVars, storeVars, sessionVars, clVars, frVars, zoneVars, limitVars, demoVars, callVars>>

\* each action converts the point reached so far once more, when that point
\* is in the frame the function takes
NormToPxPoint ==
    /\ coord.at = "norm"
    /\ Len(coord.applied) < MaxConversions
    /\ coord' = [coord EXCEPT !.applied = Append(@, "normToPxPoint"),
                              !.value = normToPxPoint(coord.value, coord.px),
                              !.at = "px"]
    /\ UNCHANGED notCoordVars

PxToNormPoint ==
    /\ coord.at = "px"
    /\ Len(coord.applied) < MaxConversions
    /\ coord' = [coord EXCEPT !.applied = Append(@, "pxToNormPoint"),
                              !.value = pxToNormPoint(coord.value, coord.px),
                              !.at = "norm"]
    /\ UNCHANGED notCoordVars

NormToMeters ==
    /\ coord.at = "norm"
    /\ Len(coord.applied) < MaxConversions
    /\ coord' = [coord EXCEPT !.applied = Append(@, "normToMeters"),
                              !.value = normToMeters(coord.value, coord.meters),
                              !.at = "meters"]
    /\ UNCHANGED notCoordVars

MetersToNorm ==
    /\ coord.at = "meters"
    /\ Len(coord.applied) < MaxConversions
    /\ coord' = [coord EXCEPT !.applied = Append(@, "metersToNorm"),
                              !.value = metersToNorm(coord.value, coord.meters),
                              !.at = "norm"]
    /\ UNCHANGED notCoordVars

PxToMeters ==
    /\ coord.at = "px"
    /\ Len(coord.applied) < MaxConversions
    /\ coord' = [coord EXCEPT !.applied = Append(@, "pxToMeters"),
                              !.value = pxToMeters(coord.value, coord.px, coord.meters),
                              !.at = "meters"]
    /\ UNCHANGED notCoordVars

MetersToPx ==
    /\ coord.at = "meters"
    /\ Len(coord.applied) < MaxConversions
    /\ coord' = [coord EXCEPT !.applied = Append(@, "metersToPx"),
                              !.value = metersToPx(coord.value, coord.px, coord.meters),
                              !.at = "px"]
    /\ UNCHANGED notCoordVars

NextCoord ==
    \/ NormToPxPoint
    \/ PxToNormPoint
    \/ NormToMeters
    \/ MetersToNorm
    \/ PxToMeters
    \/ MetersToPx

SpecCoord == InitCoord /\ [][NextCoord]_vars

----------------------------------------------------------------------------
(* Callers that apply the geometry operations more than once *)

\* The operations have no state of their own: a caller holds the inputs and
\* the results.  Here a caller may come back after a call and call again,
\* with the inputs it still holds and the results of its earlier calls at
\* hand.

MaxRecalls == 1

\* quads in the order of a walk around them, in a scrambled order, with a
\* repeated point, and an array of two points
RecallQuads ==
    {<<Pt(0, 0), Pt(1, 0), Pt(1, 1), Pt(0, 1)>>,
     <<Pt(1, 1), Pt(0, 0), Pt(0, 1), Pt(1, 0)>>,
     <<Pt(0, 1), Pt(1, 1), Pt(1, 0), Pt(1, 0)>>,
     <<Pt(0, 0), Pt(1, 0)>>}

RecallCenterlines ==
    {<<Pt(0, 0), Pt(1, 0)>>, <<Pt(0, 0), Pt(1, 0), Pt(1, 1)>>, <<Pt(0, 0), Pt(0, 0)>>}

RecallZoneLists == {<<>>, <<WallZone, BigZone>>, <<ShortZone, SideZone>>}

InitGeometry ==
    \/ InitQuad /\ raw \in RecallQuads
    \/ InitLimits /\ points \in RecallCenterlines /\ zones \in RecallZoneLists
    \/ InitZones /\ zones = <<ShortZone, Zone(<<Pt(0, 0), Pt(2, 2), Pt(0, 4)>>), WallZone>>

\* the caller of orderQuadTLTRBRBLv2 or validateQuadTLTRBRBL is back where
\* it was before the call
RecallQuad ==
    /\ recalls < MaxRecalls
    /\ qpc \in {"ordered", "validated"}
    /\ qpc' = "input"
    /\ recalls' = recalls + 1
    /\ UNCHANGED <<raw, ordered, vargs, vres>>
    /\ UNCHANGED <<storeVars, sessionVars, clVars, frVars, zoneVars, limitVars, demoVars, coordVars>>

\* the caller of parameterizeCenterline is back where it was before the
\* call, and the caller of an operation on the parameters where it was
\* when it had only them
RecallCenterline ==
    /\ recalls < MaxRecalls
    /\ cpc \in {"parameterized", "queried", "posed", "extracted"}
    /\ cpc' = IF cpc = "parameterized" THEN "input" ELSE "parameterized"
    /\ recalls' = recalls + 1
    /\ UNCHANGED <<unit, points, params, query, nearest, frenet>>
    /\ UNCHANGED <<quadVars, storeVars, sessionVars, frVars, zoneVars, limitVars, demoVars, coordVars>>

RecallZones ==
    /\ recalls < MaxRecalls
    /\ zpc = "queried"
    /\ zpc' = "input"
    /\ recalls' = recalls + 1
    /\ UNCHANGED <<zones, zonePt, zoneOpts, zoneResult>>
    /\ UNCHANGED <<quadVars, storeVars, sessionVars, clVars, frVars, limitVars, demoVars, coordVars>>

NextGeometry ==
    \/ OrderQuad
    \/ ValidateQuad
    \/ ParameterizeCenterline
    \/ \E worldX \in QueryCoords, worldY \in QueryCoords : WorldToFrenet(worldX, worldY, 0)
    \/ \E s \in ArcArgs : PoseAtArcLength(s)
    \/ \E n \in 0..MaxSamples : ExtractTrackLimits(n)
    \/ \E options \in ZoneOptions : QueryZonesAtPoint(options)
    \/ RecallQuad
    \/ RecallCenterline
    \/ RecallZones

SpecGeometry == InitGeometry /\ [][NextGeometry]_vars

----------------------------------------------------------------------------
(* Geometry the claims are stated with (independent of the code's tests) *)

\* twice the signed area of triangle p q r
Orient(p, q, r) == (q.x - p.x) * (r.y - p.y) - (r.x - p.x) * (q.y - p.y)

\* r lies in the closed triangle a b c
InClosedTriangle(r, a, b, c) ==
    LET d1 == Orient(a, b, r)
        d2 == Orient(b, c, r)
        d3 == Orient(c, a, r)
    IN  ~((d1 < 0 \/ d2 < 0 \/ d3 < 0) /\ (d1 > 0 \/ d2 > 0 \/ d3 > 0))

\* four points are the corners of a convex, non-degenerate quad: no three
\* on a line and none inside the triangle of the other three
ConvexPosition(pts) ==
    /\ Len(pts) = 4
    /\ \A i, j, k \in 1..4 :
         (i < j /\ j < k) => Orient(pts[i], pts[j], pts[k]) # 0
    /\ \A i \in 1..4 :
         LET o == CHOOSE t \in SeqsOfLen((1..4) \ {i}, 3) :
                      t[1] < t[2] /\ t[2] < t[3]
         IN  ~InClosedTriangle(pts[i], pts[o[1]], pts[o[2]], pts[o[3]])

\* the open segments a b and c d cross in one interior point
ProperlyCross(a, b, c, d) ==
    /\ Orient(a, b, c) * Orient(a, b, d) < 0
    /\ Orient(c, d, a) * Orient(c, d, b) < 0

\* the corners are listed around a strictly convex quad (either winding):
\* its diagonals cross
StrictlyConvexCyclic(p) == ProperlyCross(p[1], p[3], p[2], p[4])

\* the vertex order draws a bow-tie: two opposite sides cross
BowTie(p) ==
    \/ ProperlyCross(p[1], p[2], p[3], p[4])
    \/ ProperlyCross(p[2], p[3], p[4], p[1])

\* three consecutive corners on one line
ThreeConsecutiveCollinear(p) ==
    \E i \in 1..4 : Orient(p[i], p[(i % 4) + 1], p[((i + 1) % 4) + 1]) = 0

\* every way of listing the four points
Reorderings(pts) == {[i \in 1..4 |-> pts[f[i]]] : f \in Permutations(1..4)}

SameElements(a, b) ==
    /\ Len(a) = Len(b)
    /\ \E f \in Permutations(1..Len(a)) : \A i \in 1..Len(a) : a[i] = b[f[i]]

\* the four points are the corners of an axis-aligned rectangle
IsAxisRect(pts) ==
    /\ Len(pts) = 4
    /\ \E x1, x2 \in 0..QuadMaxX : \E y1, y2 \in 0..QuadMaxY :
         /\ x1 < x2 /\ y1 < y2
         /\ SameElements(pts, <<Pt(x1, y1), Pt(x2, y1), Pt(x2, y2), Pt(x1, y2)>>)

\* rectPolyPx-style corner list of the bounding box: TL, TR, BR, BL
BoxCorners(pts) ==
    LET xs == {pts[i].x : i \in 1..4}
        ys == {pts[i].y : i \in 1..4}
        x1 == CHOOSE v \in xs : \A u \in xs : v <= u
        x2 == CHOOSE v \in xs : \A u \in xs : v >= u
        y1 == CHOOSE v \in ys : \A u \in ys : v <= u
        y2 == CHOOSE v \in ys : \A u \in ys : v >= u
    IN  <<Pt(x1, y1), Pt(x2, y1), Pt(x2, y2), Pt(x1, y2)>>

\* the thresholds a call of validateQuadTLTRBRBL works with
EffMinSep(opts) == OrElse(opts.minPointSeparationPx, DefaultMinPointSeparationPx)

EffMinArea(opts) == OrElse(opts.minAreaPx2, DefaultMinAreaPx2)

----------------------------------------------------------------------------
(* track-store.ts: import, measurement, reset and export of a session *)

\* String.prototype.trim, on a sequence of characters
RECURSIVE TrimStart(_)
TrimStart(cs) == IF cs # <<>> /\ Head(cs) = " " THEN TrimStart(Tail(cs)) ELSE cs

RECURSIVE TrimEnd(_)
TrimEnd(cs) ==
    IF cs # <<>> /\ cs[Len(cs)] = " " THEN TrimEnd(SubSeq(cs, 1, Len(cs) - 1)) ELSE cs

Trim(cs) == TrimEnd(TrimStart(cs))

\* the TrackDef the store's signals make up
TrackDefOf(uuid, top, quad) ==
    [id           |-> uuid,
     name         |-> Trim(name),
     widthMeters  |-> widthMeters,
     heightMeters |-> heightMeters,
     topdownPx    |-> Some([w |-> top.w, h |-> top.h]),
     zones        |-> Some(zones),
     centerline   |-> Some(centerline),
     import       |-> Some([srcImageName |-> srcImageName, srcQuadPx |-> quad])]

\* a trackDef that does not ask for a source image
trackDef_WithoutImage(uuid) ==
    IF topDown = Null \/ quadPx = Null THEN Null
    ELSE Some(TrackDefOf(uuid, topDown[1], quadPx[1]))

\* TrackStore.trackDef, uuid being what crypto.randomUUID() returns
trackDef(uuid) ==
    LET top  == topDown
        quad == quadPx
        img  == srcImage
    IN  IF top = Null \/ quad = Null \/ img = Null THEN Null
        ELSE Some(TrackDefOf(uuid, top[1], quad[1]))

\* the message exportErrors pushes for a zone of fewer than 3 points
ZoneError(z) ==
    "Zone " \o z.id \o " (" \o z.type \o ") must have at least 3 points."

\* exportErrors without the check of the zones' polygons
exportErrors_AnyPolygon(t) ==
    IF t = Null THEN <<"Top-down image or quad selection missing.">>
    ELSE LET d == t[1]
         IN  (IF Len(Trim(d.name)) = 0 THEN <<"Track name is required.">> ELSE <<>>)
             \o (IF ~FracLess(Frac(0, 1), d.widthMeters)
                    \/ ~FracLess(Frac(0, 1), d.heightMeters)
                 THEN <<"Track dimensions must be greater than 0.">> ELSE <<>>)
             \o (IF d.zones = Undefined \/ Len(d.zones[1]) = 0
                 THEN <<"At least one zone is required.">> ELSE <<>>)

\* TrackStore.exportErrors, for the value t of trackDef
exportErrors(t) ==
    IF t = Null THEN <<"Top-down image or quad selection missing.">>
    ELSE LET d == t[1]
         IN  (IF Len(d.name) = 0 \/ Len(Trim(d.name)) = 0
              THEN <<"Track name is required.">> ELSE <<>>)
             \o (IF ~FracLess(Frac(0, 1), d.widthMeters)
                    \/ ~FracLess(Frac(0, 1), d.heightMeters)
                 THEN <<"Track dimensions must be greater than 0.">> ELSE <<>>)
             \o (IF d.zones = Undefined \/ Len(d.zones[1]) = 0
                 THEN <<"At least one zone is required.">>
                 ELSE LET short == SelectSeq(d.zones[1], LAMBDA z : Len(z.poly) < 3)
                      IN  [i \in 1..Len(short) |-> ZoneError(short[i])])

\* TrackStore.exportValid
exportValid(t) == Len(exportErrors(t)) = 0

\* what JSON.stringify writes and JSON.parse reads back of a number: a number
\* that is not finite is written as null
JsonNumber(f) == IF IsNaN(f) THEN Null ELSE Some(f)

\* JSON.stringify(t, null, 2) of a TrackDef, as the value JSON.parse reads
\* back from the file
Stringify(d) ==
    [d EXCEPT !.widthMeters = JsonNumber(@), !.heightMeters = JsonNumber(@)]

\* the ids crypto.randomUUID() returns: never the id of a file that is
\* there already ("uuid-0" below)
Uuids == {"uuid-1"}

\* ---- the files a user may hand to the import inputs

\* the quad an exported session carries in import.srcQuadPx
ImportedQuad == <<Pt(0, 0), Pt(PickStep, 0), Pt(PickStep, 2 * PickStep), Pt(0, 2 * PickStep)>>

TrackJsonFile(nm, w, h, px, zs, cl, imp) ==
    [id |-> "uuid-0", name |-> nm, widthMeters |-> Some(w), heightMeters |-> Some(h),
     topdownPx |-> px, zones |-> zs, centerline |-> cl, import |-> imp]

\* a session as downloadTrackJson wrote it
GoodTrack ==
    TrackJsonFile(<<"A">>, Frac(10, 1), Frac(5, 1), Some([w |-> 800, h |-> 400]),
                  Some(<<WallZone>>), Some(<<>>),
                  Some([srcImageName |-> "old.png", srcQuadPx |-> ImportedQuad]))

\* the same, edited by hand: the name padded, a zone of two points added
ShortTrack ==
    [GoodTrack EXCEPT !.name = <<" ", "B", " ">>, !.zones = Some(<<WallZone, ShortZone>>)]

\* a json that has the fields onImportTrackJsonFile asks for and no others
\* of use: a blank name, a negative width
BareTrack ==
    TrackJsonFile(<<" ">>, Frac(0 - 1, 1), Frac(5, 1), Some([w |-> 400, h |-> 400]),
                  Undefined, Undefined, Undefined)

\* jsons that onImportTrackJsonFile turns down
ZeroWidthTrack == [GoodTrack EXCEPT !.widthMeters = Some(Frac(0, 1))]

NoSizeTrack == [GoodTrack EXCEPT !.topdownPx = Undefined]

ImportTracks == {GoodTrack, ShortTrack, BareTrack}

\* the text of a file: it parses to a json, or JSON.parse throws
TrackFiles ==
    {[parses |-> TRUE, json |-> t] : t \in ImportTracks \cup {ZeroWidthTrack, NoSizeTrack}}
      \cup {[parses |-> FALSE, json |-> GoodTrack]}

\* !x of JavaScript for a number read from json (0 and a missing number are falsy)
Falsy(n) == n = Null \/ IsNaN(n[1]) \/ n[1].num = 0

\* onImportTopdownFile's img.onload
OnImportTopdownLoaded(img) ==
    /\ importTopdownImg' = Some(img)
    /\ UNCHANGED <<name, widthMeters, heightMeters, topDownW, topDownH, srcImageName>>
    /\ UNCHANGED <<importTrack, measureVars, trackJson>>
    /\ UNCHANGED storeVars
    /\ UNCHANGED notStoreVars

\* onImportTrackJsonFile's reader.onload
OnImportTrackJsonLoaded(file) ==
    /\ IF ~file.parses THEN UNCHANGED importTrack
       ELSE LET json == file.json
            IN  IF json.topdownPx = Undefined
                   \/ Falsy(json.widthMeters) \/ Falsy(json.heightMeters)
                THEN UNCHANGED importTrack
                ELSE importTrack' = Some(json)
    /\ UNCHANGED <<name, widthMeters, heightMeters, topDownW, topDownH, srcImageName>>
    /\ UNCHANGED <<importTopdownImg, measureVars, trackJson>>
    /\ UNCHANGED storeVars
    /\ UNCHANGED notStoreVars

\* TrackStore.applyImport
ApplyImport ==
    /\ importTopdownImg # Null
    /\ importTrack # Null
    /\ LET img == importTopdownImg[1]
           t   == importTrack[1]
           c   == [kind |-> "import", img |-> img,
                   w |-> t.topdownPx[1].w, h |-> t.topdownPx[1].h]
       IN  /\ name' = t.name
           /\ widthMeters' = t.widthMeters[1]
           /\ heightMeters' = t.heightMeters[1]
           /\ zones' = OrElse(t.zones, <<>>)
           /\ centerline' = OrElse(t.centerline, <<>>)
           /\ srcImageName' = IF t.import = Undefined THEN srcImageName
                              ELSE t.import[1].srcImageName
           /\ quadPx' = IF t.import = Undefined THEN Null ELSE Some(t.import[1].srcQuadPx)
           /\ topDown' = Some(c)
           /\ topDownW' = c.w
           /\ topDownH' = c.h
    /\ importTopdownImg' = Null
    /\ importTrack' = Null
    /\ step' = "annotate"
    /\ picked' = Null
    /\ calls' = <<>>
    /\ UNCHANGED <<pickerPts, srcImage, readyP, inflight, warpCall, loads>>
    /\ UNCHANGED <<measureVars, trackJson>>
    /\ UNCHANGED <<quadVars, clVars, frVars, limitVars, coordVars, callVars>>
    /\ UNCHANGED <<zpc, zonePt, zoneOpts, zoneResult>>
    /\ UNCHANGED <<vehicleState, steeringAngle, isRunning, lastFrameTime, frames>>

\* what the measure actions leave alone
notMeasureVars ==
    <<name, topDownW, topDownH, srcImageName, importTopdownImg, importTrack, trackJson,
      storeVars, notStoreVars>>

\* the template's "measure" button: measureMode.set(true)
StartMeasure ==
    /\ ~measureMode
    /\ measureMode' = TRUE
    /\ UNCHANGED <<measurePt1, measurePt2, measureRealDist, widthMeters, heightMeters>>
    /\ UNCHANGED notMeasureVars

\* the places of the displayed top-down a user clicks, in CSS pixels from
\* the corner of the image element
MeasureClicks == {Pt(0, 0), Pt(3, 4)}

\* TrackStore.onMeasureCanvasClick, the image element showing the canvas at
\* half its size (canvas.width / rect.width = 2)
OnMeasureCanvasClick(click) ==
    /\ measureMode
    /\ LET x  == click.x * 2
           y  == click.y * 2
           pt == Pt(x, y)
       IN  IF measurePt1 = Null
           THEN measurePt1' = Some(pt) /\ UNCHANGED measurePt2
           ELSE /\ measurePt2 = Null
                /\ measurePt2' = Some(pt)
                /\ UNCHANGED measurePt1
    /\ UNCHANGED <<measureMode, measureRealDist, widthMeters, heightMeters>>
    /\ UNCHANGED notMeasureVars

\* the template's distance input: measureRealDist.set(d)
SetMeasureRealDist(d) ==
    /\ measureMode
    /\ measureRealDist' = d
    /\ UNCHANGED <<measureMode, measurePt1, measurePt2, widthMeters, heightMeters>>
    /\ UNCHANGED notMeasureVars

\* TrackStore.measurePixelDist, in fixed point
measurePixelDist ==
    LET p1 == measurePt1
        p2 == measurePt2
    IN  IF p1 = Null \/ p2 = Null THEN Null
        ELSE Some(Hypot(p2[1].x - p1[1].x, p2[1].y - p1[1].y))

\* TrackStore.pixelsPerMeter
pixelsPerMeter ==
    LET pxDist   == measurePixelDist
        realDist == measureRealDist
    IN  IF pxDist = Null \/ pxDist[1] = 0 \/ realDist <= 0 THEN Null
        ELSE Some(Norm(Frac(pxDist[1], realDist * Prec)))

\* TrackStore.applyMeasure
ApplyMeasure ==
    /\ pixelsPerMeter # Null
    /\ topDown # Null
    /\ LET ppm == pixelsPerMeter[1]
           top == topDown[1]
           w   == Norm(Frac(top.w * ppm.den, ppm.num))
           h   == Norm(Frac(top.h * ppm.den, ppm.num))
       IN  /\ widthMeters' = w
           /\ heightMeters' = h
    /\ measureMode' = FALSE
    /\ measurePt1' = Null
    /\ measurePt2' = Null
    /\ measureRealDist' = 0
    /\ UNCHANGED notMeasureVars

\* TrackStore.cancelMeasure
CancelMeasure ==
    /\ measureMode' = FALSE
    /\ measurePt1' = Null
    /\ measurePt2' = Null
    /\ measureRealDist' = 0
    /\ UNCHANGED <<widthMeters, heightMeters>>
    /\ UNCHANGED notMeasureVars

\* TrackStore.downloadTrackJson: the file the browser saves
DownloadTrackJson ==
    /\ \E uuid \in Uuids :
          LET t == trackDef(uuid)
          IN  /\ t # Null
              /\ exportValid(t)
              /\ trackJson' = Some(Stringify(t[1]))
    /\ UNCHANGED <<name, widthMeters, heightMeters, topDownW, topDownH, srcImageName>>
    /\ UNCHANGED <<importTopdownImg, importTrack, measureVars>>
    /\ UNCHANGED storeVars
    /\ UNCHANGED notStoreVars

\* the distances a user types into the measure input, in meters
RealDists == {0, 5}

\* the quad the user picks in a session: the corners of the image, not in
\* order
SessionPicks ==
    {<<Pt(0, 0), Pt(PickStep, PickStep * 2), Pt(PickStep, 0), Pt(0, PickStep * 2)>>}

InitSession ==
    /\ pickerPts \in SessionPicks
    /\ step = "upload"
    /\ srcImage = Null
    /\ quadPx = Null
    /\ topDown = Null
    /\ readyP = "unset"
    /\ inflight = Null
    /\ picked = Null
    /\ warpCall = Null
    /\ loads = 0
    /\ SessionConstructed
    /\ QuadIdle
    /\ CenterlineIdle
    /\ ZoneIdle
    /\ LimitsIdle
    /\ DemoConstructed
    /\ CoordIdle
    /\ NoRecalls

NextSession ==
    \/ \E img \in Images : OnFile(img)
    \/ \E img \in Images : OnFileLoaded(img)
    \/ OnQuadStart
    \/ CvLoadSucceeds
    \/ CvLoadFails
    \/ \E cvOutcome \in CvOutcomes : OnQuadResume(cvOutcome)
    \/ OnQuadRejected
    \/ ResetAll
    \/ \E img \in Images : OnImportTopdownLoaded(img)
    \/ \E file \in TrackFiles : OnImportTrackJsonLoaded(file)
    \/ ApplyImport
    \/ DownloadTrackJson

\* a session of loading, picking, importing and exporting
SpecSession == InitSession /\ [][NextSession]_vars

NextMeasure ==
    \/ \E img \in Images : OnFile(img)
    \/ \E img \in Images : OnFileLoaded(img)
    \/ \E img \in Images : OnImportTopdownLoaded(img)
    \/ \E file \in TrackFiles : OnImportTrackJsonLoaded(file)
    \/ ApplyImport
    \/ StartMeasure
    \/ \E click \in MeasureClicks : OnMeasureCanvasClick(click)
    \/ \E d \in RealDists : SetMeasureRealDist(d)
    \/ ApplyMeasure
    \/ CancelMeasure
    \/ ResetAll

\* a session of loading, importing, measuring and resetting
SpecMeasure == InitSession /\ [][NextMeasure]_vars

----------------------------------------------------------------------------
(* Claims about quad ordering and validation (checked under SpecQuad) *)

\* C1: for four points in convex, non-degenerate position,
\* orderQuadTLTRBRBLv2 returns the same sequence for all 24 input orders,
\* and ordering its own output returns that output.
C1_OrderIndependentIdempotent ==
    (qpc = "ordered" /\ ConvexPosition(raw)) =>
        /\ ~ordered.threw
        /\ \A q \in Reorderings(raw) : orderQuadTLTRBRBLv2(q) = ordered
        /\ orderQuadTLTRBRBLv2(ordered.val) = ordered

\* C1 witness: a slanted quad (a parallelogram whose top corner is on the
\* right) given in a non-canonical order has been reordered.
C1_Witness ==
    /\ qpc = "ordered"
    /\ raw = <<Pt(0, 2), Pt(1, 1), Pt(0, 1), Pt(1, 0)>>
    /\ ordered.val = <<Pt(1, 0), Pt(1, 1), Pt(0, 2), Pt(0, 1)>>

\* C2: for every convex, non-degenerate quad the output has one consistent
\* winding (the shoelace sum has the sign it has for a rectangle listed
\* TL, TR, BR, BL, which is positive with y pointing down), and an
\* axis-aligned rectangle comes back as
\* [(minX,minY),(maxX,minY),(maxX,maxY),(minX,maxY)].
C2_ConsistentWinding ==
    (qpc = "ordered" /\ ConvexPosition(raw)) =>
        /\ ShoelaceSum(ordered.val) > 0
        /\ IsAxisRect(raw) => ordered.val = BoxCorners(raw)

\* C3 (as claimed): a quad accepted with thresholds (minSeparation, minArea)
\* is accepted with any thresholds that are not larger.
C3_MonotoneAnyThresholds ==
    (qpc = "validated" /\ vres.ok) =>
        \A o \in OptsChoices :
            (/\ EffMinSep(o) <= EffMinSep(vargs.opts)
             /\ EffMinArea(o) <= EffMinArea(vargs.opts))
            => validateQuadTLTRBRBL(raw, vargs.w, vargs.h, o).ok

\* C3 (amended): a quad accepted with thresholds (minSeparation, minArea) is
\* accepted with any thresholds 0 <= minSeparation' <= minSeparation and
\* minArea' <= minArea.
C3_MonotoneNonNegativeSeparation ==
    (qpc = "validated" /\ vres.ok) =>
        \A o \in OptsChoices :
            (/\ 0 <= EffMinSep(o)
             /\ EffMinSep(o) <= EffMinSep(vargs.opts)
             /\ EffMinArea(o) <= EffMinArea(vargs.opts))
            => validateQuadTLTRBRBL(raw, vargs.w, vargs.h, o).ok

\* C3 witness: a quad accepted with thresholds that can be lowered.
C3_Witness ==
    /\ qpc = "validated"
    /\ vres.ok
    /\ vargs.opts = Opts(Some(1), Some(2))

\* the checks of C4 and C5, each stated on its own
CheckCount(pts) == Len(pts) = 4

CheckBounds(pts, w, h) ==
    \A i \in 1..4 : pts[i].x \in 0..w /\ pts[i].y \in 0..h

CheckSeparation(pts, minSep) ==
    \A i, j \in 1..4 : i # j => dist2(pts[i], pts[j]) >= minSep * minSep

\* twice the area of a convex quad: the two triangles on a diagonal
CheckArea(pts, minArea) ==
    Abs(Orient(pts[1], pts[2], pts[3])) + Abs(Orient(pts[1], pts[3], pts[4]))
        >= 2 * minArea

----------------------------------------------------------------------------
(* Claims about the onQuad path (checked under SpecStore) *)

\* validateQuad with its default thresholds, on the loaded image's size
SatisfiesQuadInvariants(quad) ==
    validateQuadTLTRBRBL(quad, ImageW, ImageH, Opts(Undefined, Undefined)).ok

\* C6: every quad onQuad hands to warpPerspective, and every quad it leaves
\* in quadPx, satisfies the Quad invariants validateQuad checks (in bounds,
\* separated, convex, large enough).
C6_OnQuadQuadsAreValidated ==
    /\ warpCall # Null => SatisfiesQuadInvariants(warpCall[1].quad)
    /\ (quadPx # Null /\ picked # Null) => SatisfiesQuadInvariants(quadPx[1])

C25_OnQuadAlwaysSetsTopDown ==
    [][(inflight # Null /\ inflight' = Null)
          => /\ topDown' # Null
             /\ topDown'[1].img = inflight[1].img
             /\ topDown'[1].kind \in {"warp", "fallback"}
             /\ step' = "scale"]_vars

\* C25, the part that holds: once the awaited promise has resolved, the call
\* ends with a canvas and step 'scale' whatever warpPerspective does.
C25_WarpFailuresFallBack ==
    [][(inflight # Null /\ inflight' = Null /\ readyP = "resolved")
          => /\ topDown' # Null
             /\ topDown'[1].img = inflight[1].img
             /\ topDown'[1].kind \in {"warp", "fallback"}
             /\ step' = "scale"]_vars

----------------------------------------------------------------------------
(* Claims about the centerline (checked under SpecCenterline) *)

Parameterized == cpc \in {"parameterized", "queried"} /\ Len(points) >= 2

\* the length of the segment from vertex i to the next vertex of the loop
SegmentLength(i) ==
    LET a == points[i]
        b == points[NextIndex(i, Len(points))]
    IN  Hypot(b.x - a.x, b.y - a.y)

\* the sum of the lengths of segments i..k
RECURSIVE SumOfSegments(_, _)
SumOfSegments(i, k) == IF i > k THEN 0 ELSE SegmentLength(i) + SumOfSegments(i + 1, k)

\* the square loop whose four edges are one grid step long
UnitSquareLoop == <<Pt(0, 0), Pt(1, 0), Pt(1, 1), Pt(0, 1)>>

\* the fixed-point length len of a centerline with grid step u is tenths / 10
IsLength(len, u, tenths) == len * u.num * 10 = tenths * u.den * Prec

\* C8: for every centerline of n >= 2 points, parameterizeCenterline returns
\* arcLengths with exactly n entries, arcLengths[0] = 0, arcLengths
\* non-decreasing, and totalLength = arcLengths[n-1] = the sum of the first
\* n-1 segment lengths, the closing segment excluded; the square loop with
\* four edges of 0.8 gives 2.4, not 3.2.
C8_ArcLengthsExcludeClosingSegment ==
    Parameterized =>
        LET n == Len(points)
        IN  /\ ~params.threw
            /\ Len(params.arcLengths) = n
            /\ params.arcLengths[1] = 0
            /\ \A i \in 1..(n - 1) : params.arcLengths[i] <= params.arcLengths[i + 1]
            /\ params.totalLength = params.arcLengths[n]
            /\ params.totalLength = SumOfSegments(1, n - 1)
            /\ (points = UnitSquareLoop /\ unit = Frac(4, 5)) =>
                  /\ \A i \in 1..n : IsLength(SegmentLength(i), unit, 8)
                  /\ IsLength(params.totalLength, unit, 24)
                  /\ ~IsLength(params.totalLength, unit, 32)

C8_Witness ==
    /\ cpc = "parameterized"
    /\ points = UnitSquareLoop
    /\ unit = Frac(4, 5)
    /\ params.arcLengths = <<0, Prec, 2 * Prec, 3 * Prec>>
    /\ SegmentLength(4) = Prec
    /\ params.totalLength = 3 * Prec

\* C9: every FrenetPose returned by worldToFrenet has 0 <= s < totalLength,
\* also when the nearest centerline point is the last vertex or lies on the
\* closing segment.
C9_SWithinTotalLength ==
    cpc = "queried" =>
        /\ 0 <= frenet.s.num
        /\ frenet.s.num < params.totalLength * frenet.s.den

SqDist(p, q) == (p.x - q.x) * (p.x - q.x) + (p.y - q.y) * (p.y - q.y)

Dot(pt, a, b) == (pt.x - a.x) * (b.x - a.x) + (pt.y - a.y) * (b.y - a.y)

\* the squared Euclidean distance from pt to the segment a b
SegmentDistSq(pt, a, b) ==
    IF a = b THEN Frac(SqDist(pt, a), 1)
    ELSE IF Dot(pt, a, b) <= 0 THEN Frac(SqDist(pt, a), 1)
    ELSE IF Dot(pt, a, b) >= SqDist(a, b) THEN Frac(SqDist(pt, b), 1)
    ELSE Frac(Orient(a, b, pt) * Orient(a, b, pt), SqDist(a, b))

\* the parameter of the projection of pt on the line a b, clamped to [0,1]
ClampedProjection(pt, a, b) ==
    IF a = b THEN Frac(0, 1)
    ELSE IF Dot(pt, a, b) <= 0 THEN Frac(0, 1)
    ELSE IF Dot(pt, a, b) >= SqDist(a, b) THEN Frac(1, 1)
    ELSE Frac(Dot(pt, a, b), SqDist(a, b))

\* a segment whose squared length is at most 1e-6
ShortSegment(a, b) == SqDist(a, b) * unit.num * unit.num * 1000000 <= unit.den * unit.den

SegmentEnd(i) == points[NextIndex(i, Len(points))]

\* the arc-length bounds of segment i of the closed loop
SegmentS0(i) == params.arcLengths[i]

SegmentS1(i) ==
    IF i < Len(points) THEN params.arcLengths[i + 1]
    ELSE params.arcLengths[1] + params.totalLength

\* nearest names the segment-wise minimum of distSq and the point at
\* parameter tOf on the first segment attaining it
NearestAgrees(distSq(_), tOf(_)) ==
    LET n == Len(points)
        d == [i \in 1..n |-> distSq(i)]
        k == CHOOSE i \in 1..n :
                 /\ \A j \in 1..n : ~FracLess(d[j], d[i])
                 /\ \A j \in 1..(i - 1) : FracLess(d[i], d[j])
        t == tOf(k)
    IN  /\ FracEq(nearest.distanceSq, d[k])
        /\ FracEq(nearest.s,
                  Frac(SegmentS0(k) * t.den + t.num * (SegmentS1(k) - SegmentS0(k)),
                       t.den))

TrueDistSq(i) == SegmentDistSq(query, points[i], SegmentEnd(i))

TrueT(i) == ClampedProjection(query, points[i], SegmentEnd(i))

\* C10 as stated: distance is the minimum Euclidean distance from the point
\* to the n segments of the closed loop, and s = s0 + t*(s1 - s0) on the
\* first segment attaining it, t the clamped projection parameter and the
\* closing segment's s1 = arcLengths[0] + totalLength.
C10_NearestOverAllSegments ==
    cpc = "queried" => NearestAgrees(TrueDistSq, TrueT)

GuardedDistSq(i) ==
    IF ShortSegment(points[i], SegmentEnd(i))
    THEN Frac(SqDist(query, points[i]), 1)
    ELSE TrueDistSq(i)

GuardedT(i) ==
    IF ShortSegment(points[i], SegmentEnd(i)) THEN Frac(0, 1) ELSE TrueT(i)

\* C10, amended: the same, except that a segment whose squared length is at
\* most 1e-6 counts as its start vertex alone: its distance is the distance
\* to that vertex and its t is 0.
C10_NearestOverGuardedSegments ==
    cpc = "queried" => NearestAgrees(GuardedDistSq, GuardedT)

\* the query point is nearer to a short segment of positive length than to
\* any vertex, and the scan answers with a vertex after the first
C10_Witness ==
    /\ cpc = "queried"
    /\ unit = Frac(7, 10000)
    /\ \E i \in 1..Len(points) :
          /\ ShortSegment(points[i], SegmentEnd(i))
          /\ points[i] # SegmentEnd(i)
          /\ FracLess(TrueDistSq(i), nearest.distanceSq)
    /\ nearest.distanceSq.num > 0
    /\ nearest.s.num > 0

\* the circular difference of arcLengths around vertex i
CircularDS(i) ==
    LET m == Len(params.arcLengths)
    IN  params.arcLengths[NextIndex(i, m)] - params.arcLengths[PrevIndex(i, m)]

\* the difference of the headings after and before vertex i
CircularDHeading(i) ==
    LET n == Len(params.headings)
    IN  params.headings[NextIndex(i, n)] - params.headings[PrevIndex(i, n)]

\* |dS| <= 0.1, for a fixed-point length dS of a centerline with grid step u
WithinCurvatureGuard(dS, u) == Abs(dS) * u.num * 10 <= u.den * Prec

\* C13: for every vertex i, the wrap-around vertices 0 and n-1 included,
\* curvature[i] = (heading[(i+1) mod n] - heading[(i-1) mod n]) / dS with dS
\* the circular difference of arcLengths, except that curvature[i] = 0 when
\* |dS| <= 0.1.
C13_CurvatureCentralDifference ==
    Parameterized =>
        \A i \in 1..Len(points) :
            params.curvatures[i] =
                IF WithinCurvatureGuard(CircularDS(i), unit)
                THEN 0
                ELSE QuotFp(CircularDHeading(i) * Prec, CircularDS(i))

\* C15: nearestArcLength, and with it worldToFrenet, returns a finite s,
\* distance and d, never NaN or infinite, also when the centerline holds
\* duplicate consecutive points and the query is nearest to such a segment.
C15_NearestIsFinite ==
    (cpc = "queried" /\ Len(points) >= 2) =>
        /\ ~IsNaN(nearest.s)
        /\ ~IsNaN(nearest.distanceSq)
        /\ ~IsNaN(nearest.d)
        /\ ~IsNaN(frenet.s)
        /\ ~IsNaN(frenet.d)

----------------------------------------------------------------------------
(* Claims about the Frenet conversions (checked under SpecFrenet) *)

\* the fraction f is within 1/50 of the integer target
CloseTo(f, target) == ~IsNaN(f) /\ Abs(f.num - target * f.den) * 50 <= f.den

\* the fixed-point angles a and b differ by a multiple of 2 pi, up to 1/50
SameAngle(a, b) == Abs(WrapAngle(a - b)) * 50 <= Prec

\* C11: frenetToWorld is the inverse of worldToFrenet: feeding the (s, d,
\* headingError) of worldToFrenet(params, x, y, psi) into frenetToWorld
\* returns the position (x, y) and a heading equal to psi modulo 2 pi.
C11_FrenetRoundTrip ==
    cpc = "returned" =>
        /\ CloseTo(world.x, query.x)
        /\ CloseTo(world.y, query.y)
        /\ ~IsNaN(world.heading)
        /\ SameAngle(Floor(world.heading), frenet.heading)

\* C12: with totalLength > 0, poseAtArcLength(params, totalLength + s) equals
\* poseAtArcLength(params, s) for every s, negative ones included, and
\* poseAtArcLength(params, 0).pos equals points[0].
C12_PoseWrapLaw ==
    (cpc = "posed" /\ params.totalLength > 0) =>
        /\ poseAtArcLength(params, FracAdd(poseArg, Frac(params.totalLength, 1))) = pose
        /\ poseArg.num = 0 =>
              /\ FracEq(pose.pos.x, Frac(points[1].x, 1))
              /\ FracEq(pose.pos.y, Frac(points[1].y, 1))

\* a negative s whose pose lies strictly inside a segment
C12_Witness ==
    /\ cpc = "posed"
    /\ params.totalLength > 0
    /\ poseArg.num < 0
    /\ (0 - poseArg.num) < params.totalLength * poseArg.den
    /\ pose.pos.x.den > 1
    /\ pose = poseAtArcLength(params, FracAdd(poseArg, Frac(params.totalLength, 1)))

\* |f| < 1e-6 for a fraction f with a positive denominator below 2^31
NearSingular(f) == Abs(f.num) <= 2147 /\ Abs(f.num) * 1000000 < f.den

\* 1 + curvature(s) * d, from the curvature poseAtArcLength gives at s
RateDenominator ==
    LET curvature == poseAtArcLength(params, rateArgs.s).curvature
        d         == rateArgs.d
    IN  Norm(Frac(curvature.den * Prec * d.den + curvature.num * d.num,
                  curvature.den * Prec * d.den))

\* C14: arcLengthRate returns exactly 0 whenever |1 + curvature(s) * d| < 1e-6
\* and otherwise speed * cos(headingError) / (1 + curvature(s) * d); the
\* result is never NaN or infinite, for finite arguments and any centerline
\* of at least two points.
C14_RateGuardedAtSingularity ==
    cpc = "rated" =>
        /\ ~IsNaN(rate.denom)
        /\ rate.denom = RateDenominator
        /\ rate.zero <=> NearSingular(rate.denom)
        /\ rate.zero => rate.numer = 0
        /\ ~rate.zero =>
              /\ rate.denom.num # 0
              /\ rate.numer = rateArgs.speed * Cos(rateArgs.headingError)

\* a moving vehicle at the offset where 1 + curvature(s) * d vanishes
C14_Witness ==
    /\ cpc = "rated"
    /\ rate.zero
    /\ rate.denom.num = 0
    /\ rateArgs.d.num # 0
    /\ rateArgs.speed * Cos(rateArgs.headingError) # 0

----------------------------------------------------------------------------
(* Claims about the zone query (checked under SpecZones) *)

\* pt lies on the segment a b
OnSegment(pt, a, b) ==
    /\ Orient(a, b, pt) = 0
    /\ Min2(a.x, b.x) <= pt.x /\ pt.x <= Max2(a.x, b.x)
    /\ Min2(a.y, b.y) <= pt.y /\ pt.y <= Max2(a.y, b.y)

OnBoundary(pt, poly) ==
    \E i \in 1..Len(poly) : OnSegment(pt, poly[i], poly[(i % Len(poly)) + 1])

\* the edge a b passes above pt: it crosses the ray that goes up from pt
PassesAbove(pt, a, b) ==
    \/ a.x <= pt.x /\ pt.x < b.x /\ Orient(a, b, pt) < 0
    \/ b.x <= pt.x /\ pt.x < a.x /\ Orient(b, a, pt) < 0

\* the even-odd rule, counted along the ray that goes up from pt
EvenOddInside(pt, poly) ==
    Cardinality({i \in 1..Len(poly) : PassesAbove(pt, poly[i], poly[(i % Len(poly)) + 1])}) % 2 = 1

\* pt is strictly on one side of every edge: the polygon is convex and pt
\* is strictly inside it
StrictlyInsideConvex(pt, poly) ==
    \/ \A i \in 1..Len(poly) : Orient(poly[i], poly[(i % Len(poly)) + 1], pt) > 0
    \/ \A i \in 1..Len(poly) : Orient(poly[i], poly[(i % Len(poly)) + 1], pt) < 0

\* pt is outside the bounding box of the polygon
OutsideBox(pt, poly) ==
    \/ \A i \in 1..Len(poly) : poly[i].x < pt.x
    \/ \A i \in 1..Len(poly) : poly[i].x > pt.x
    \/ \A i \in 1..Len(poly) : poly[i].y < pt.y
    \/ \A i \in 1..Len(poly) : poly[i].y > pt.y

\* the zone counts as containing zonePt: by the even-odd rule off its
\* boundary; on the boundary the rule leaves it open and the result decides
Contains(zone) ==
    /\ Len(zone.poly) >= 3
    /\ IF OnBoundary(zonePt, zone.poly)
       THEN \E k \in 1..Len(zoneResult.containing) : zoneResult.containing[k] = zone
       ELSE EvenOddInside(zonePt, zone.poly)

\* C17: containing is exactly the list, in input order and without removing
\* duplicates, of the zones with at least three vertices whose polygon
\* contains the point under the even-odd rule; a point strictly inside a
\* polygon is always listed and a point strictly outside never, also when
\* the horizontal ray passes through a vertex or along a horizontal edge.
C17_ContainingIsEvenOdd ==
    zpc = "queried" =>
        /\ zoneResult.containing = SelectSeq(zones, Contains)
        /\ \A i \in 1..Len(zones) :
              Len(zones[i].poly) >= 3 =>
                 /\ StrictlyInsideConvex(zonePt, zones[i].poly) =>
                       \E k \in 1..Len(zoneResult.containing) :
                          zoneResult.containing[k] = zones[i]
                 /\ OutsideBox(zonePt, zones[i].poly) =>
                       \A k \in 1..Len(zoneResult.containing) :
                          zoneResult.containing[k] # zones[i]

\* a point strictly inside a zone that is listed twice, with a vertex of
\* the zone on the ray, and inside the wall zone before it
C17_Witness ==
    /\ zpc = "queried"
    /\ Len(zones) = 3
    /\ zones[2] = zones[3]
    /\ ~OnBoundary(zonePt, zones[2].poly)
    /\ StrictlyInsideConvex(zonePt, zones[2].poly)
    /\ \E i \in 1..Len(zones[2].poly) :
          zones[2].poly[i].y = zonePt.y /\ zones[2].poly[i].x > zonePt.x
    /\ zoneResult.containing = zones

\* the squared distance from zonePt to the nearest edge of the polygon
EdgeDistSq(poly) ==
    LET all == {SegmentDistSq(zonePt, poly[i], poly[(i % Len(poly)) + 1]) : i \in 1..Len(poly)}
    IN  CHOOSE d \in all : \A e \in all : ~FracLess(e, d)

\* the squared distance of a zone: 0 if it is listed as containing zonePt
ZoneDistSq(zone) ==
    IF \E k \in 1..Len(zoneResult.containing) : zoneResult.containing[k] = zone
    THEN Frac(0, 1)
    ELSE EdgeDistSq(zone.poly)

\* the zones that take part in the query
Polygonal == {i \in 1..Len(zones) : Len(zones[i].poly) >= 3}

\* the first zone, in input order, at the least distance, and that distance
FirstNearest ==
    LET d == [i \in Polygonal |-> ZoneDistSq(zones[i])]
        f == CHOOSE i \in Polygonal :
                /\ \A j \in Polygonal : ~FracLess(d[j], d[i])
                /\ \A j \in Polygonal : j < i => FracLess(d[i], d[j])
    IN  [zone |-> zones[f], distanceSq |-> d[f]]

\* what nearest is before maxDistance is applied
IsNearestHit(hit) ==
    LET first == FirstNearest
    IN  /\ hit # Null
        /\ hit[1].zone = first.zone
        /\ FracEq(hit[1].distanceSq, first.distanceSq)

\* C18: with no maxDistance, nearest is null only when no zone has at least
\* three vertices; otherwise it is the first zone in input order that attains
\* the minimum distance (0 if the zone contains the point, else the minimum
\* point-to-segment distance over its edges); a point strictly inside a
\* zone always gets nearest.distance = 0.
C18_NearestIsFirstMinimum ==
    (zpc = "queried" /\ zoneOpts.maxDistance = Undefined) =>
        /\ zoneResult.nearest = Null <=> Polygonal = {}
        /\ Polygonal # {} => IsNearestHit(zoneResult.nearest)
        /\ (\E i \in Polygonal : StrictlyInsideConvex(zonePt, zones[i].poly)) =>
              zoneResult.nearest[1].distanceSq.num = 0

\* a point outside two different zones at the same distance, the second of
\* them behind the first in the list
C18_Witness ==
    /\ zpc = "queried"
    /\ zoneOpts.maxDistance = Undefined
    /\ Len(zones) = 3
    /\ zones[1] = ShortZone
    /\ zones[2].poly # zones[3].poly
    /\ zoneResult.containing = <<>>
    /\ FracEq(EdgeDistSq(zones[2].poly), EdgeDistSq(zones[3].poly))
    /\ zoneResult.nearest # Null
    /\ zoneResult.nearest[1].zone = zones[2]
    /\ zoneResult.nearest[1].distanceSq.num > 0

\* C19: with a maxDistance, nearest is null if the minimum zone distance is
\* greater than maxDistance and otherwise the same hit as without it (a hit
\* at exactly maxDistance is kept); containing is the same with and without
\* a maxDistance.
C19_MaxDistanceFiltersNearest ==
    (zpc = "queried" /\ zoneOpts.maxDistance # Undefined) =>
        LET m       == zoneOpts.maxDistance[1]
            without == queryZonesAtPoint(zonePt, zones, [maxDistance |-> Undefined])
            least   == FirstNearest.distanceSq
        IN  /\ zoneResult.containing = without.containing
            /\ Polygonal = {} => zoneResult.nearest = Null
            /\ Polygonal # {} =>
                  IF m < 0 \/ m * m * least.den < least.num
                  THEN zoneResult.nearest = Null
                  ELSE zoneResult.nearest = without.nearest /\ without.nearest # Null

\* a nearest zone at exactly maxDistance, half a grid step away
C19_Witness ==
    /\ zpc = "queried"
    /\ zoneOpts.maxDistance = Some(1)
    /\ zoneResult.containing = <<>>
    /\ zoneResult.nearest # Null
    /\ zoneResult.nearest[1].distanceSq = Frac(1, 1)
    /\ FracEq(EdgeDistSq(zoneResult.nearest[1].zone.poly), Frac(1, 1))

----------------------------------------------------------------------------
(* Claims about the track limits (checked under SpecLimits) *)

\* the position of sample i, counted from 1, in half grid steps
SamplePoint(i) ==
    LET ds == Frac(params.totalLength, Max2(1, numSamples - 1))
    IN  HalfSteps(poseAtArcLength(params, Norm(Frac((i - 1) * ds.num, ds.den))).pos)

\* the signed distances from pt to the zones of at least three vertices
SignedDistances(pt) ==
    {pointToPolygonDistance(pt, zones[k].poly, unit) :
        k \in {j \in 1..Len(zones) : Len(zones[j].poly) >= 3}}

\* C20: for every sample, extractTrackLimits computes the signed distance
\* (negative inside) to every zone and takes as minDist the one of minimum
\* magnitude across the zones; leftBounds[i] = -minDist and
\* rightBounds[i] = +minDist, or -0.5 and +0.5 when no zone has at least
\* three vertices; leftBounds[i] = -rightBounds[i].
C20_LimitsAreMinimumMagnitude ==
    cpc = "extracted" =>
        /\ Len(limits.leftBounds) = numSamples
        /\ Len(limits.rightBounds) = numSamples
        /\ \A i \in 1..numSamples :
              LET ds == SignedDistances(SamplePoint(i))
              IN  /\ limits.leftBounds[i] = Negate(limits.rightBounds[i])
                  /\ IF ds = {}
                     THEN limits.rightBounds[i] = DefaultLateral
                     ELSE /\ limits.rightBounds[i] \in ds
                          /\ \A e \in ds : ~FracLess(e.sq, limits.rightBounds[i].sq)

\* the arc length of sample i, counted from 1: (i - 1) * totalLength /
\* (numSamples - 1), in fixed-point grid steps
SampleArcLength(i) ==
    IF numSamples <= 1 THEN Frac(0, 1)
    ELSE Norm(Frac((i - 1) * params.totalLength, numSamples - 1))

\* the first segment of the path points[1] .. points[n] that ends at or
\* after arc length s
RECURSIVE PathSegment(_, _)
PathSegment(s, k) ==
    IF k >= Len(points) - 1 THEN Len(points) - 1
    ELSE IF ~FracLess(Frac(params.arcLengths[k + 1], 1), s) THEN k
    ELSE PathSegment(s, k + 1)

\* the point of the path from the first vertex to the last one that lies at
\* arc length s from the first vertex, in grid steps
PathPoint(s) ==
    LET k  == PathSegment(s, 1)
        a0 == params.arcLengths[k]
        a1 == params.arcLengths[k + 1]
        t  == IF a1 > a0 THEN Norm(Frac(s.num - a0 * s.den, (a1 - a0) * s.den))
                         ELSE Frac(0, 1)
    IN  [x |-> Norm(Frac(points[k].x * t.den + t.num * (points[k + 1].x - points[k].x), t.den)),
         y |-> Norm(Frac(points[k].y * t.den + t.num * (points[k + 1].y - points[k].y), t.den))]

\* a grid point as a position with fractions as coordinates
AsPosition(p) == [x |-> Frac(p.x, 1), y |-> Frac(p.y, 1)]

\* the bounds that the zones give at the position pos (in grid steps)
BoundsAt(pos) ==
    LET minDist == MinOverZonesFrom(HalfSteps(pos), zones, unit, 1,
                                    [left |-> Infinity, right |-> Infinity])
    IN  [left  |-> IF minDist.left.kind = "infinity" THEN Negate(DefaultLateral)
                                                     ELSE Negate(minDist.left),
         right |-> IF minDist.right.kind = "infinity" THEN DefaultLateral
                                                      ELSE minDist.right]

\* C21: extractTrackLimits returns leftBounds and rightBounds with exactly
\* numSamples entries each; entry i is evaluated at the point of the path at
\* arc length i * totalLength / (numSamples - 1), so that sample 0 sits on
\* the first vertex and sample numSamples - 1 on the last vertex.
C21_SamplesCoverPath ==
    cpc = "extracted" =>
        /\ Len(limits.leftBounds) = numSamples
        /\ Len(limits.rightBounds) = numSamples
        /\ \A i \in 1..numSamples :
              LET at == BoundsAt(PathPoint(SampleArcLength(i)))
              IN  /\ limits.leftBounds[i] = at.left
                  /\ limits.rightBounds[i] = at.right
        /\ numSamples >= 1 =>
              /\ PathPoint(SampleArcLength(1)) = AsPosition(points[1])
              /\ limits.rightBounds[1] = BoundsAt(AsPosition(points[1])).right
        /\ numSamples >= 2 =>
              /\ PathPoint(SampleArcLength(numSamples)) = AsPosition(points[Len(points)])
              /\ limits.rightBounds[numSamples]
                    = BoundsAt(AsPosition(points[Len(points)])).right

\* C21, the part that does not concern the last sample: both arrays have
\* numSamples entries and every entry but the last is evaluated at the point
\* of the path at its arc length, sample 0 on the first vertex
C21_SamplesBeforeLast ==
    cpc = "extracted" =>
        /\ Len(limits.leftBounds) = numSamples
        /\ Len(limits.rightBounds) = numSamples
        /\ \A i \in 1..numSamples :
              (i < numSamples \/ numSamples = 1) =>
                 LET at == BoundsAt(PathPoint(SampleArcLength(i)))
                 IN  /\ limits.leftBounds[i] = at.left
                     /\ limits.rightBounds[i] = at.right

\* C24: for every sample i, leftBounds[i] <= 0 <= rightBounds[i], so the
\* interval leftBounds[i] <= d <= rightBounds[i] is never empty, also when
\* the sampled position lies inside a zone polygon.
C24_LateralIntervalNeverEmpty ==
    cpc = "extracted" =>
        \A i \in 1..numSamples :
           /\ ~limits.rightBounds[i].neg
           /\ limits.leftBounds[i] = Negate(limits.rightBounds[i])

----------------------------------------------------------------------------
(* Claims about the centerline demo (checked under SpecDemo) *)

\* the pose, Frenet and track-limit functions, and the parameterization
\* they all need
GeometryCalls ==
    {"parameterizeCenterline", "poseAtArcLength", "arcLengthRate", "extractTrackLimits"}

\* C16: parameterizeCenterline fails for a centerline of 0 or 1 points and
\* produces no CenterlineParams; in every state where the stored centerline
\* has fewer than 2 points the demo's centerlineParams is null, so is
\* trackLimits, and no pose, Frenet or track-limit query runs.
C16_NoQueriesBelowTwoPoints ==
    Len(centerline) < 2 =>
        /\ parameterizeCenterline(centerline, unit) = [NoParams EXCEPT !.threw = TRUE]
        /\ centerlineParams = Null
        /\ trackLimits = Null
        /\ \A k \in 1..Len(calls) : calls[k] \notin GeometryCalls

\* a frame that ran on a centerline of one point, after the vehicle had
\* moved along a centerline of two
C16_Witness ==
    /\ Len(centerline) = 1
    /\ isRunning
    /\ vehicleState.s > 0
    /\ frames = MaxFrames
    /\ calls = <<"console.warn">>


----------------------------------------------------------------------------
(* Claims about the coordinate conversions (checked under SpecCoord) *)

\* the function that undoes the conversion fn
InverseOf(fn) ==
    CASE fn = "normToPxPoint" -> "pxToNormPoint"
      [] fn = "pxToNormPoint" -> "normToPxPoint"
      [] fn = "normToMeters"  -> "metersToNorm"
      [] fn = "metersToNorm"  -> "normToMeters"
      [] fn = "pxToMeters"    -> "metersToPx"
      [] fn = "metersToPx"    -> "pxToMeters"

\* the conversion fn applied to the point p with the sizes px and meters
Convert(fn, p, px, meters) ==
    CASE fn = "normToPxPoint" -> normToPxPoint(p, px)
      [] fn = "pxToNormPoint" -> pxToNormPoint(p, px)
      [] fn = "normToMeters"  -> normToMeters(p, meters)
      [] fn = "metersToNorm"  -> metersToNorm(p, meters)
      [] fn = "pxToMeters"    -> pxToMeters(p, px, meters)
      [] fn = "metersToPx"    -> metersToPx(p, px, meters)

\* a conversion followed by the one that undoes it
RoundTripDone ==
    /\ Len(coord.applied) = 2
    /\ coord.applied[2] = InverseOf(coord.applied[1])

\* |r - x| <= 5 * 2^-MantBits * |x|: r is x up to the four roundings of the
\* longest round trip (for doubles a relative error below 1e-15)
WithinRounding(r, x) ==
    IF x.man = 0 THEN r = FloatZero
    ELSE /\ r.man # 0
         /\ r.neg = x.neg
         /\ Abs(r.exp - x.exp) <= 1
         /\ LET lo == Min2(r.exp, x.exp)
                rr == r.man * Pow2(r.exp - lo)
                xx == x.man * Pow2(x.exp - lo)
            IN  Abs(rr - xx) * Pow2(MantBits) <= 5 * xx

\* the sizes that agree with those of the state on the width, resp. the
\* height
SameWidth(sizes, size) == {z \in sizes : z.w = size.w}

SameHeight(sizes, size) == {z \in sizes : z.h = size.h}

\* the x of the first conversion's result is the same for every other y and
\* every other height, and likewise its y
PerAxis ==
    Len(coord.applied) >= 1 =>
        LET fn  == coord.applied[1]
            first == Convert(fn, coord.start, coord.px, coord.meters)
        IN  /\ \A cy \in CoordValues :
                 \A px \in SameWidth(PxSizes, coord.px), meters \in SameWidth(MeterSizes, coord.meters) :
                    Convert(fn, [x |-> coord.start.x, y |-> cy], px, meters).x = first.x
            /\ \A cx \in CoordValues :
                 \A px \in SameHeight(PxSizes, coord.px), meters \in SameHeight(MeterSizes, coord.meters) :
                    Convert(fn, [x |-> cx, y |-> coord.start.y], px, meters).y = first.y
            /\ Len(coord.applied) = 1 => coord.value = first

\* C22 as stated: for all non-zero sizes and every point, each conversion
\* pair (pxToNormPoint with normToPxPoint, normToMeters with metersToNorm,
\* pxToMeters with metersToPx) returns the original point in both
\* directions, and each output coordinate depends only on the same-axis
\* input coordinate and size.
C22_RoundTripsReturnThePoint ==
    /\ RoundTripDone => coord.value = coord.start
    /\ PerAxis

\* C22, amended: the same, except that a round trip returns the original
\* point up to the rounding of its products and quotients (a relative error
\* of a few units in the last place, far within 1e-9), and exactly when the
\* coordinate is 0.
C22_RoundTripsWithinRounding ==
    /\ RoundTripDone =>
          /\ WithinRounding(coord.value.x, coord.start.x)
          /\ WithinRounding(coord.value.y, coord.start.y)
    /\ PerAxis

\* a pixel point went to normalized coordinates and back and came back
\* changed by the rounding, and within it
C22_Witness ==
    /\ coord.applied = <<"pxToNormPoint", "normToPxPoint">>
    /\ coord.value # coord.start
    /\ WithinRounding(coord.value.x, coord.start.x)
    /\ WithinRounding(coord.value.y, coord.start.y)


----------------------------------------------------------------------------
(* Claims about repeated calls of the geometry (checked under SpecGeometry) *)

----------------------------------------------------------------------------
(* Claims about reset and measurement (checked under SpecMeasure) *)

\* the signals resetAll sets, at their initial values
SessionCleared ==
    /\ step = "upload"
    /\ srcImage = Null
    /\ quadPx = Null
    /\ topDown = Null
    /\ zones = <<>>
    /\ centerline = <<>>
    /\ measureMode = FALSE
    /\ measurePt1 = Null
    /\ measurePt2 = Null
    /\ measureRealDist = 0

\* C26: after resetAll, whatever came before it, every signal of the store
\* has its initial value: the session is cleared, and the name, the
\* dimensions, the output size, the source image name and the import
\* buffers are the defaults.
C26_ResetAllRestoresInitialValues ==
    [][ResetAll => (SessionCleared /\ SessionConstructed)']_vars

\* C26, the part that holds: resetAll clears the ten signals it sets.
C26_ResetAllClearsTheSession ==
    [][ResetAll => SessionCleared']_vars

----------------------------------------------------------------------------
(* Claims about a session of import and export (checked under SpecSession) *)

\* the states the export is meant for: there are a top-down, a quad and a
\* source image, the trimmed name is not empty, both dimensions are
\* positive, and there is a zone and no zone of fewer than 3 points
ExportReady ==
    /\ topDown # Null
    /\ quadPx # Null
    /\ srcImage # Null
    /\ \E i \in 1..Len(name) : name[i] # " "
    /\ widthMeters.num > 0
    /\ heightMeters.num > 0
    /\ Len(zones) >= 1
    /\ \A i \in 1..Len(zones) : Len(zones[i].poly) >= 3

\* C27: downloadTrackJson writes a file only in a state where trackDef
\* exists, the trimmed name is not empty, both dimensions are positive and
\* there is at least one zone and every zone has 3 points or more; these
\* are the states where exportErrors is empty.  In any other state it does
\* nothing.
C27_DownloadOnlyWhenValid ==
    [][/\ (DownloadTrackJson \/ trackJson' # trackJson) => ExportReady
       /\ \A uuid \in Uuids : ExportReady <=> exportErrors(trackDef(uuid)) = <<>>]_vars

\* C27 witness: a file has been written, and it holds the state it was
\* written in.
C27_Witness ==
    /\ trackJson # Null
    /\ ExportReady
    /\ trackJson[1].zones = Some(zones)
    /\ trackJson[1].name = Trim(name)

\* the canvas a suspended onQuad call writes if it resumes in this state
PendingCanvas(cvOutcome) ==
    CanvasAfterWarp(inflight[1].img, inflight[1].quad, topDownW, topDownH, cvOutcome)

\* only its own continuation ends a suspended onQuad call, and after a
\* resolved await the continuation writes a canvas drawn from the image and
\* the quad the call holds, and step 'scale', and leaves srcImage and quadPx
\* as they are
ResumeWritesCaptured ==
    /\ (inflight # Null /\ inflight' # inflight)
          => inflight' = Null /\ readyP \in {"resolved", "rejected"}
    /\ (inflight # Null /\ inflight' = Null /\ readyP = "resolved")
          => /\ \E cvOutcome \in CvOutcomes : topDown' = Some(PendingCanvas(cvOutcome))
             /\ step' = "scale"
             /\ srcImage' = srcImage
             /\ quadPx' = quadPx

\* C28 as stated: resetAll and a new image do not cancel a suspended
\* onQuad call, and when it resumes it writes what it captured before the
\* await, reading nothing from the store: nothing the store does while the
\* call is suspended changes the canvas the call will write.
C28_ResumeReadsNothing ==
    [][/\ ResumeWritesCaptured
       /\ (inflight # Null /\ inflight' = inflight)
             => \A cvOutcome \in CvOutcomes :
                   PendingCanvas(cvOutcome)' = PendingCanvas(cvOutcome)]_vars

\* C28 as it holds: the call is not cancelled and writes a canvas drawn from
\* the captured image and quad, at the output size the store has when the
\* call resumes.
C28_ResumeWritesCapturedImage ==
    [][ResumeWritesCaptured]_vars

\* C28 witness: a call that resetAll overtook has resumed: step is 'scale'
\* and there is a top-down, drawn by onQuad, while there is no source image.
C28_Witness ==
    /\ step = "scale"
    /\ topDown # Null
    /\ topDown[1].kind \in {"warp", "fallback"}
    /\ srcImage = Null
    /\ inflight = Null

SameSession(file, t) == [file EXCEPT !.id = t.id] = t

\* the file written last is no session that can be imported
NoReExport ==
    trackJson # Null => \A t \in ImportTracks : ~SameSession(trackJson[1], t)

\* applyImport leaves srcImage as it is; while there is no source image
\* trackDef is null, exportValid is false and no file is written; and a
\* source image that loads clears the quad, the top-down and the zones
ImportLeavesSrcImage ==
    /\ ApplyImport => srcImage' = srcImage
    /\ srcImage = Null
          => /\ \A uuid \in Uuids :
                   trackDef(uuid) = Null /\ ~exportValid(trackDef(uuid))
             /\ trackJson' = trackJson
    /\ (\E img \in Images : OnFileLoaded(img)) \/ (srcImage' # srcImage /\ srcImage' # Null)
          => quadPx' = Null /\ topDown' = Null /\ zones' = <<>>

\* C30 as stated: applyImport never sets srcImage, an import into a store
\* without a source image cannot be exported, a source image loaded later
\* clears what was imported, and so no file that is written holds an
\* imported session unchanged.
C30_ImportedSessionNeverReExported ==
    [][ImportLeavesSrcImage /\ NoReExport']_vars

\* C30 as it holds: the first three parts, and a file that holds an imported
\* session is written only with a source image in the store, which
\* applyImport left there.
C30_ReExportNeedsSourceImage ==
    [][/\ ImportLeavesSrcImage
       /\ (trackJson' # trackJson /\ ~NoReExport') => srcImage # Null]_vars

\* C30 witness: the session of GoodTrack was imported over a source image
\* that was there before, and has been written again as it was imported.
C30_Witness ==
    /\ trackJson # Null
    /\ SameSession(trackJson[1], GoodTrack)
    /\ srcImage # Null
    /\ topDown # Null
    /\ topDown[1].kind = "import"

============================================================================
